---- MODULE Spec2Model ----
(***************************************************************************)
(* Code Surveyor: the per-file, per-line measurement engine of the NBNC    *)
(* and Code csmodules (src/csmodules/NBNC.py, src/csmodules/Code.py).      *)
(*                                                                         *)
(* A file is a sequence of text lines.  Lines are TLA+ strings that end in *)
(* their line terminator, as the lines an open text file yields do;        *)
(* _preprocess_line removes the terminator before any classification.      *)
(* The regular expressions of the csmodules are written as syntax trees    *)
(* and evaluated by a backtracking matcher with Python's priority order    *)
(* (first alternative first, greedy before lazy), so that match, search,   *)
(* sub and the "remainingLine" group are computed, not assumed.            *)
(***************************************************************************)
EXTENDS Integers, Sequences, FiniteSets, TLC

(***************************************************************************)
(* Characters                                                              *)
(***************************************************************************)
CharAt(s, i) == SubSeq(s, i, i)

CharsOf(s) == { CharAt(s, k) : k \in 1..Len(s) }

LowerStr == "abcdefghijklmnopqrstuvwxyz"

UpperStr == "ABCDEFGHIJKLMNOPQRSTUVWXYZ"

Lower == CharsOf(LowerStr)

Upper == CharsOf(UpperStr)

Digits == CharsOf("0123456789")

\* \s of the re module, and the characters str.strip() removes
SpaceChars == {" ", "\t", "\n"}

\* \w of the re module
WordChars == Lower \cup Upper \cup Digits \cup {"_"}

\* re.IGNORECASE: the subject character is folded to lower case and the
\* patterns are written in lower case
Fold(c) ==
    IF c \in Upper
    THEN CharAt(LowerStr, CHOOSE k \in 1..26 : CharAt(UpperStr, k) = c)
    ELSE c

MaxOf(S) == CHOOSE m \in S : \A n \in S : n <= m

MinOf(S) == CHOOSE m \in S : \A n \in S : m <= n

(***************************************************************************)
(* Regular expression syntax trees                                         *)
(***************************************************************************)
Ch(S) == [t |-> "set", s |-> S]

No(S) == [t |-> "nset", s |-> S]

AnyChar == No({"\n"})

Cat(rs) == [t |-> "cat", rs |-> rs]

Alt(rs) == [t |-> "alt", rs |-> rs]

Star(r) == [t |-> "star", r |-> r, greedy |-> TRUE]

LazyStar(r) == [t |-> "star", r |-> r, greedy |-> FALSE]

Plus(r) == Cat(<<r, Star(r)>>)

LazyPlus(r) == Cat(<<r, LazyStar(r)>>)

Eps == Cat(<<>>)

Bol == [t |-> "bol"]

Eol == [t |-> "eol"]

Wb == [t |-> "wb"]

NotAhead(r) == [t |-> "nla", r |-> r]

\* the characters of q, one after the other
Lit(q) == [t |-> "lit", q |-> q]

Words(qs) == Alt([k \in 1..Len(qs) |-> Lit(qs[k])])

Sp == Ch(SpaceChars)

(***************************************************************************)
(* The matcher.  Ends(r, s, i) is the sequence of positions at which a     *)
(* match of r that starts after the first i characters of s can end, in    *)
(* the order in which the backtracking matcher of re tries them.           *)
(***************************************************************************)
InClass(r, s, k) ==
    IF r.t = "set" THEN Fold(CharAt(s, k)) \in r.s ELSE Fold(CharAt(s, k)) \notin r.s

IsWordAt(s, k) == k >= 1 /\ k <= Len(s) /\ CharAt(s, k) \in WordChars

ClassStarEnds(r, s, i) ==
    LET run == { j \in i..Len(s) : \A k \in (i + 1)..j : InClass(r.r, s, k) }
        m == MaxOf(run)
    IN  IF r.greedy
        THEN [n \in 1..(m - i + 1) |-> m - n + 1]
        ELSE [n \in 1..(m - i + 1) |-> i + n - 1]

\* whether the characters of q follow the first i characters of s
LitAt(q, s, i) ==
    i + Len(q) <= Len(s) /\ \A k \in 1..Len(q) : Fold(CharAt(s, i + k)) = CharAt(q, k)

RECURSIVE Ends(_, _, _), AltEnds(_, _, _, _, _), CatEnds(_, _, _, _)
RECURSIVE Through(_, _, _, _, _), StarThrough(_, _, _, _)

Ends(r, s, i) ==
    CASE r.t \in {"set", "nset"} ->
            IF i < Len(s) /\ InClass(r, s, i + 1) THEN <<i + 1>> ELSE <<>>
      [] r.t = "lit" -> IF LitAt(r.q, s, i) THEN <<i + Len(r.q)>> ELSE <<>>
      [] r.t = "bol" -> IF i = 0 THEN <<i>> ELSE <<>>
      [] r.t = "eol" -> IF i = Len(s) \/ (i = Len(s) - 1 /\ CharAt(s, Len(s)) = "\n")
                        THEN <<i>> ELSE <<>>
      [] r.t = "wb"  -> IF IsWordAt(s, i) # IsWordAt(s, i + 1) THEN <<i>> ELSE <<>>
      [] r.t = "nla" -> IF Ends(r.r, s, i) = <<>> THEN <<i>> ELSE <<>>
      [] r.t = "alt" -> AltEnds(r.rs, 1, Len(r.rs), s, i)
      [] r.t = "cat" -> CatEnds(r.rs, 1, s, i)
      [] r.t = "star" ->
            IF r.r.t \in {"set", "nset"}
            THEN ClassStarEnds(r, s, i)
            ELSE IF r.greedy
                 THEN StarThrough(Ends(r.r, s, i), 1, r, s) \o <<i>>
                 ELSE <<i>> \o StarThrough(Ends(r.r, s, i), 1, r, s)

\* the alternatives lo..hi, in their order
AltEnds(rs, lo, hi, s, i) ==
    IF lo > hi THEN <<>>
    ELSE IF lo = hi THEN Ends(rs[lo], s, i)
    ELSE AltEnds(rs, lo, (lo + hi) \div 2, s, i) \o AltEnds(rs, (lo + hi) \div 2 + 1, hi, s, i)

CatEnds(rs, k, s, i) ==
    IF k > Len(rs) THEN <<i>> ELSE Through(Ends(rs[k], s, i), 1, rs, k + 1, s)

Through(js, n, rs, k, s) ==
    IF n > Len(js) THEN <<>>
    ELSE CatEnds(rs, k, s, js[n]) \o Through(js, n + 1, rs, k, s)

\* one more iteration of a starred group (an empty iteration is not repeated)
StarThrough(js, n, r, s) ==
    IF n > Len(js) THEN <<>>
    ELSE Ends(r, s, js[n]) \o StarThrough(js, n + 1, r, s)

NoMatch == [start |-> -1, end |-> -1]

Found(m) == m.start >= 0

\* pattern.match(s): anchored at the start of s
ReMatch(r, s) ==
    LET es == Ends(r, s, 0)
    IN  IF es = <<>> THEN NoMatch ELSE [start |-> 0, end |-> es[1]]

\* pattern.search(s): the leftmost match, the first in priority order there
ReSearchFrom(r, s, from) ==
    LET hits == { i \in from..Len(s) : Ends(r, s, i) # <<>> }
    IN  IF hits = {} THEN NoMatch
        ELSE [start |-> MinOf(hits), end |-> Ends(r, s, MinOf(hits))[1]]

ReSearch(r, s) == ReSearchFrom(r, s, 0)

\* pattern.sub('', s): every non-overlapping leftmost match removed
RECURSIVE ReSubFrom(_, _, _)
ReSubFrom(r, s, from) ==
    LET m == ReSearchFrom(r, s, from)
    IN  IF ~Found(m) \/ m.end = m.start
        THEN SubSeq(s, from + 1, Len(s))
        ELSE SubSeq(s, from + 1, m.start) \o ReSubFrom(r, s, m.end)

ReSub(r, s) == ReSubFrom(r, s, 0)

\* str.strip()
Strip(s) ==
    LET keep == { k \in 1..Len(s) : CharAt(s, k) \notin SpaceChars }
    IN  IF keep = {} THEN "" ELSE SubSeq(s, MinOf(keep), MaxOf(keep))

\* sub in s: the position after which the first occurrence of sub starts, or -1
Find(sub, s) ==
    LET at == { i \in 0..(Len(s) - Len(sub)) : SubSeq(s, i + 1, i + Len(sub)) = sub }
    IN  IF at = {} THEN -1 ELSE MinOf(at)

Contains(sub, s) == Find(sub, s) >= 0

(***************************************************************************)
(* The regular expressions of NBNC._cs_init_config_options                 *)
(***************************************************************************)
\* r''' (["] .+? ["]) | (['] .+? [']) '''
reStringLiteral ==
    Alt(<< Cat(<<Ch({"\""}), LazyPlus(AnyChar), Ch({"\""})>>),
           Cat(<<Ch({"'"}), LazyPlus(AnyChar), Ch({"'"})>>) >>)

\* a pattern that no line matches: a true-blank check that never answers yes
\* (the variant C3 is checked against)
reNothing == Ch({})

\* r'^ \s* $'
reTrueBlankLine == Cat(<<Bol, Star(Sp), Eol>>)

\* a variant of the faux-blank pattern below that takes white space only, so that
\* a line of punctuation is code (the variant C5 is checked against)
reWhiteSpaceOnly == Cat(<<Bol, Star(Sp), Eol>>)

\* ^ [ \s \\ \+ \. , ; = \- / \* ' (back quote) " # ! % {} \(\) \[\] <> \| ]* $
\* (the back quote cannot be written in a string of this language; no line of
\* the model holds one)
BlankChars ==
    SpaceChars \cup
    {"\\", "+", ".", ",", ";", "=", "-", "/", "*", "'", "\"", "#", "!", "%",
     "{", "}", "(", ")", "[", "]", "<", ">", "|"}

reBlankLine == Cat(<<Bol, Star(Ch(BlankChars)), Eol>>)

\* ^ \s* (<[\w/\\]*>)+ \s* $
reBlankXmlLine ==
    Cat(<<Bol, Star(Sp),
          Plus(Cat(<<Ch({"<"}), Star(Ch(Lower \cup Digits \cup {"_", "/", "\\"})), Ch({">"})>>)),
          Star(Sp), Eol>>)

\* ( ^ \s* ( // | [#](?! \| |def|inc|if|els|end) | ; | --(?! \[ ) | rem | ! ))
reSingleLineComments ==
    Cat(<<Bol, Star(Sp),
          Alt(<< Lit("//"),
                 Cat(<<Ch({"#"}),
                       NotAhead(Alt(<<Lit("|"), Lit("def"), Lit("inc"), Lit("if"),
                                      Lit("els"), Lit("end")>>))>>),
                 Lit(";"),
                 Cat(<<Lit("--"), NotAhead(Lit("["))>>),
                 Lit("rem"),
                 Lit("!") >>)>>)

\* ( (^|[^/]) /\* | --\[\[ | =(begin|head|item) | [#]\| | {- | <!-- | <%-- )
\* followed by REMAINING_LINE_APPEND, the group that takes the rest of the line
reMultiLineCommentsOpen ==
    Alt(<< Cat(<<Alt(<<Bol, No({"/"})>>), Lit("/*")>>),
           Lit("--[["),
           Cat(<<Lit("="), Words(<<"begin", "head", "item">>)>>),
           Lit("#|"),
           Lit("{-"),
           Lit("<!--"),
           Lit("<%--") >>)

\* ( \*/ | \]\] | =(cut|end) | \|[#] | -} | --> | --%> ) and the same group
reMultiLineCommentsClose ==
    Alt(<< Lit("*/"),
           Lit("]]"),
           Cat(<<Lit("="), Words(<<"cut", "end">>)>>),
           Lit("|#"),
           Lit("-}"),
           Lit("-->"),
           Lit("--%>") >>)

\* match.group("remainingLine"): what follows the matched token
RemainingLine(m, s) == SubSeq(s, m.end + 1, Len(s))

(***************************************************************************)
(* The regular expressions of Code._cs_init_config_options                 *)
(***************************************************************************)
\* \b ( if | elseif | elif | else | unless | for | foreach | while | until |
\*      when | from | where | join | find ) \b
reDecision ==
    Cat(<<Wb, Words(<<"if", "elseif", "elif", "else", "unless", "for", "foreach",
                      "while", "until", "when", "from", "where", "join", "find">>), Wb>>)

\* [;{}_\[\]\(]+\s*$ | [A-Za-z]\.[A-Za-z] | [&\+\[\]\|]+ | [=]+ (?![^>])
reDeadCode ==
    Alt(<< Cat(<<Plus(Ch({";", "{", "}", "_", "[", "]", "("})), Star(Sp), Eol>>),
           Cat(<<Ch(Lower), Ch({"."}), Ch(Lower)>>),
           Plus(Ch({"&", "+", "[", "]", "|"})),
           Cat(<<Plus(Ch({"="})), NotAhead(No({">"}))>>) >>)

\* \b (case) \b
reCases == Cat(<<Wb, Lit("case"), Wb>>)

\* \b (return | continue | break | goto | except | catch | finally) \b
reEscapes ==
    Cat(<<Wb, Words(<<"return", "continue", "break", "goto", "except", "catch", "finally">>), Wb>>)

\* ( \s+ and \s+ | \s+ or \s+ | \|\| | \&\& )
reBooleans ==
    Alt(<< Cat(<<Plus(Sp), Lit("and"), Plus(Sp)>>), Cat(<<Plus(Sp), Lit("or"), Plus(Sp)>>),
           Lit("||"), Lit("&&") >>)

\* ^ \s* [#]( def | if | else | end )
rePreprocessor == Cat(<<Bol, Star(Sp), Ch({"#"}), Words(<<"def", "if", "else", "end">>)>>)

\* \b (using | import | [#]* include) \b
reImports ==
    Cat(<<Wb, Alt(<<Lit("using"), Lit("import"), Cat(<<Star(Ch({"#"})), Lit("include")>>)>>), Wb>>)

\* \b (class | type | interface) \b
reClass == Cat(<<Wb, Words(<<"class", "type", "interface">>), Wb>>)

\* \b (def|public|private|protected|static|void|sub|func|function|prop|property|
\*     proc|procedure) \s* [\( \[ { ]+      (the class holds the space)
RoutineWords ==
    << "def", "public", "private", "protected", "static", "void", "sub", "func", "function",
       "prop", "property", "proc", "procedure" >>

\* what follows the group of reDefaultRoutine
RoutineOpen == Cat(<<Star(Sp), Plus(Ch({"(", " ", "[", "{"}))>>)

reDefaultRoutine == Cat(<<Wb, Words(RoutineWords), RoutineOpen>>)

\* self.inlineCommentMatches: substrings, tested with "in" and str.split
inlineCommentMatches == << "//", "[#](?!def|inc|if)", "/*" >>

\* Block detector 1 (machine generated): the patterns of its start/end pairs
\* region \b .*? \b generated  ...  end \s* region
reRegionStart == Cat(<<Lit("region"), Wb, LazyStar(AnyChar), Wb, Lit("generated")>>)

reRegionEnd == Cat(<<Lit("end"), Star(Sp), Lit("region")>>)

\* \b do \s+ not \s+ ( edit | modify ) \b
reDoNotEdit ==
    Cat(<<Wb, Lit("do"), Plus(Sp), Lit("not"), Plus(Sp), Words(<<"edit", "modify">>), Wb>>)

\* ( generated | compiled ) \b [^\.]*? \b ( with | by | from | date | time |
\*   auto | code | file | class | script | source ) .* $
reGeneratedBy ==
    Cat(<<Words(<<"generated", "compiled">>), Wb, LazyStar(No({"."})), Wb,
          Words(<<"with", "by", "from", "date", "time", "auto", "code", "file",
                  "class", "script", "source">>),
          Star(AnyChar), Eol>>)

\* \b ( auto[^\b]*? | code | file | class | script | source | designer ) \b
\*   [^\.]*? \b ( generated | \bcreated ) \b     ([^\b] excludes the backspace)
reCodeGenerated ==
    Cat(<<Wb,
          Alt(<<Cat(<<Lit("auto"), LazyStar(AnyChar)>>), Lit("code"), Lit("file"),
                Lit("class"), Lit("script"), Lit("source"), Lit("designer")>>),
          Wb, LazyStar(No({"."})), Wb,
          Alt(<<Lit("generated"), Cat(<<Wb, Lit("created")>>)>>), Wb>>)

\* \b created \b .*? \b ( tool | auto | code | script ) \b .* $
reCreatedBy ==
    Cat(<<Wb, Lit("created"), Wb, LazyStar(AnyChar), Wb,
          Words(<<"tool", "auto", "code", "script">>), Wb, Star(AnyChar), Eol>>)

\* SKIP_LINES of a configuration file that ignores white-space lines: ^ \s* $
reSkipBlank == Cat(<<Bol, Star(Sp), Eol>>)

\* A compiled pattern is held by the name of the attribute that holds it in the
\* csmodule, and the pattern of a parameter line of a configuration entry by its
\* rawParam (add_param compiles what follows the NEGATIVE__ prefix); "None" is
\* Python's None
Pattern(n) ==
    CASE n = "reTrueBlankLine" -> reTrueBlankLine
      [] n = "reBlankLine" -> reBlankLine
      [] n = "reBlankXmlLine" -> reBlankXmlLine
      [] n = "reSingleLineComments" -> reSingleLineComments
      [] n = "reMultiLineCommentsOpen" -> reMultiLineCommentsOpen
      [] n = "reMultiLineCommentsClose" -> reMultiLineCommentsClose
      [] n = "reDecision" -> reDecision
      [] n = "reDeadCode" -> reDeadCode
      [] n = "reRegionStart" -> reRegionStart
      [] n = "reRegionEnd" -> reRegionEnd
      [] n = "reDoNotEdit" -> reDoNotEdit
      [] n = "reGeneratedBy" -> reGeneratedBy
      [] n = "reCodeGenerated" -> reCodeGenerated
      [] n = "reCreatedBy" -> reCreatedBy
      [] n = "reScriptTagStart" -> Cat(<<Ch({"<", "{"}), Lit("%")>>)
      [] n = "reScriptTagEnd" -> Cat(<<Lit("%"), Ch({">", "}"})>>)
      [] n = "reScriptStart" -> Lit("<script")
      [] n = "reScriptEnd" -> Lit("</script>")
      [] n = "reSkipBlank" -> reSkipBlank
      [] n = "reCases" -> reCases
      [] n = "reEscapes" -> reEscapes
      [] n = "reBooleans" -> reBooleans
      [] n = "rePreprocessor" -> rePreprocessor
      [] n = "reImports" -> reImports
      [] n = "reClass" -> reClass
      [] n = "reDefaultRoutine" -> reDefaultRoutine
      [] n = "foo" -> Lit("foo")
      [] n = "c" -> Lit("c")
      [] n = "NEGATIVE__x" -> Lit("x")
      [] n = "NEGATIVE__foobar" -> Lit("foobar")

MachineDetectors ==
    << [start |-> "reRegionStart", end |-> "reRegionEnd"],
       [start |-> "reDoNotEdit", end |-> "None"],
       [start |-> "reGeneratedBy", end |-> "None"],
       [start |-> "reCodeGenerated", end |-> "None"],
       [start |-> "reCreatedBy", end |-> "None"] >>

\* Web._cs_init_config_options: [<{]% ... %[>}]  and  <script ... </script>
ScriptDetectors ==
    << [start |-> "reScriptTagStart", end |-> "reScriptTagEnd"],
       [start |-> "reScriptStart", end |-> "reScriptEnd"] >>

\* self.blockDetectors of each csmodule: one list of pairs per block, block 0 first
BlockDetectorsOf(module) ==
    CASE module = "NBNC" -> << <<>> >>
      [] module = "Code" -> << <<>>, MachineDetectors, <<>> >>
      [] module = "Web"  -> << <<>>, MachineDetectors, ScriptDetectors >>

(***************************************************************************)
(* Configuration: the attributes that _cs_init_config_options sets and the *)
(* OPT: options of a configuration file change                             *)
(***************************************************************************)
\* self.addLineSep = None
NoSep == ""

\* MAX_LINE_LENGTH_DEFAULT
MaxLineLengthDefault == 255

\* HUMAN_CODE, MACHINE and CONTENT of Code; Web swaps CONTENT and HUMAN_CODE
MACHINE == 1

\* Code.ROUTINE_NESTING_INDENT and Code.ROUTINE_IGNORE_COLUMN
ROUTINE_NESTING_INDENT == 4

ROUTINE_IGNORE_COLUMN == 20

DefaultOptions(module) ==
    [ module |-> module,
      addLineSep |-> NoSep,
      maxLineLength |-> MaxLineLengthDefault,
      reSkipLine |-> "None",
      blankXmlLines |-> FALSE,
      stripLineBeforeComments |-> TRUE,
      sameLineMultiCloseAsComment |-> TRUE,
      blockChangeIgnore |-> "",
      blockIgnoreFile |-> "",
      measureBlock |-> IF module = "Web" THEN 2 ELSE 0,
      CONTENT |-> IF module = "Web" THEN 0 ELSE 2,
      inclDeadCode |-> TRUE,
      commentsInclInline |-> TRUE,
      complexityInclCases |-> TRUE,
      complexityInclEscapes |-> TRUE,
      complexityInclBooleans |-> FALSE,
      routineInclFileLines |-> FALSE,
      routineSpanBlocks |-> FALSE,
      routineSingleLine |-> FALSE,
      routineOutputSingle |-> FALSE,
      routineAvgIndent |-> ROUTINE_NESTING_INDENT,
      routineIgnoreCol |-> ROUTINE_IGNORE_COLUMN,
      writeEmptyMeasures |-> FALSE,
      stopOnError |-> TRUE ]

\* OPT:COMMENT_CLOSE_CODE
CommentCloseCode(o) == [o EXCEPT !.sameLineMultiCloseAsComment = FALSE]

\* OPT:SKIP_LINES:<regex>
SkipLines(o, re) == [o EXCEPT !.reSkipLine = re]

\* OPT:ADD_LINE_SEP:<separator>
AddLineSep(o, sep) == [o EXCEPT !.addLineSep = sep]

\* OPT:MAX_LINE_LENGTH:<chars>
MaxLineLength(o, chars) == [o EXCEPT !.maxLineLength = chars]

\* OPT:MACHINE_MEASURE
MachineMeasure(o) == [o EXCEPT !.measureBlock = MACHINE]

\* OPT:BLOCK_IGNORE:<phrase>
BlockIgnore(o, phrase) == [o EXCEPT !.blockChangeIgnore = phrase]

\* OPT:BLOCK_IGNORE_FILE:<phrase>
BlockIgnoreFile(o, phrase) == [o EXCEPT !.blockIgnoreFile = phrase]

\* The configurations explored
Configs ==
    { DefaultOptions("NBNC"),
      CommentCloseCode(DefaultOptions("NBNC")),
      SkipLines(DefaultOptions("NBNC"), "reSkipBlank"),
      DefaultOptions("Code"),
      MachineMeasure(DefaultOptions("Code")),
      BlockIgnoreFile(BlockIgnore(DefaultOptions("Code"), "keep"), "nodetect"),
      AddLineSep(DefaultOptions("Code"), ";"),
      SkipLines(MaxLineLength(AddLineSep(DefaultOptions("Code"), ";"), 4), "reSkipBlank"),
      DefaultOptions("Web") }

\* OPT:INLINE_EXCLUDE
InlineExclude(o) == [o EXCEPT !.commentsInclInline = FALSE]

\* OPT:MEASURE_EMPTIES
MeasureEmpties(o) == [o EXCEPT !.writeEmptyMeasures = TRUE]

\* OPT:CONTINUE_ON_ERROR
ContinueOnError(o) == [o EXCEPT !.stopOnError = FALSE]

\* OPT:COMP_INCL_BOOLEAN, OPT:COMP_EXCL_ESCAPES and OPT:COMP_EXCL_CASES
CompInclBoolean(o) == [o EXCEPT !.complexityInclBooleans = TRUE]

CompExclEscapes(o) == [o EXCEPT !.complexityInclEscapes = FALSE]

CompExclCases(o) == [o EXCEPT !.complexityInclCases = FALSE]

\* OPT:ROUTINE_FILE_LINES, OPT:ROUTINE_SPAN_BLOCKS, OPT:ROUTINE_SINGLE_LINE and
\* OPT:ROUTINE_OUTPUT_SINGLE
RoutineFileLines(o) == [o EXCEPT !.routineInclFileLines = TRUE]

RoutineSpanBlocks(o) == [o EXCEPT !.routineSpanBlocks = TRUE]

RoutineSingleLine(o) == [o EXCEPT !.routineSingleLine = TRUE]

RoutineOutputSingle(o) == [o EXCEPT !.routineOutputSingle = TRUE]

\* OPT:ROUTINE_IGNORE_COLUMN:2
RoutineIgnoreColumn(o) == [o EXCEPT !.routineIgnoreCol = 2]

\* The configurations of Code explored with the verb routines
RoutineConfigs ==
    { DefaultOptions("Code"), RoutineIgnoreColumn(DefaultOptions("Code")),
      MeasureEmpties(DefaultOptions("Code")),
      RoutineOutputSingle(DefaultOptions("Code")),
      RoutineSingleLine(RoutineOutputSingle(DefaultOptions("Code"))),
      RoutineFileLines(DefaultOptions("Code")),
      RoutineSpanBlocks(DefaultOptions("Code")),
      CompInclBoolean(DefaultOptions("Code")),
      CompExclEscapes(DefaultOptions("Code")),
      CompExclCases(DefaultOptions("Code")),
      CompInclBoolean(CompExclEscapes(CompExclCases(DefaultOptions("Code")))) }

\* The configurations explored with the pairs of files
PairConfigs ==
    { DefaultOptions("Code"), CommentCloseCode(DefaultOptions("Code")),
      InlineExclude(DefaultOptions("Code")) }

\* The configurations of Code and Web explored with every verb
CodeConfigs ==
    { DefaultOptions("Code"),
      MachineMeasure(DefaultOptions("Code")),
      InlineExclude(DefaultOptions("Code")),
      CommentCloseCode(DefaultOptions("Code")),
      MaxLineLength(AddLineSep(DefaultOptions("Code"), ";"), 4),
      DefaultOptions("Web") }

\* NEG_CONFIG_PREFIX of searchMixin
NEG_CONFIG_PREFIX == "NEGATIVE__"

\* str.startswith(prefix)
StartsWith(prefix, s) == Len(s) >= Len(prefix) /\ SubSeq(s, 1, Len(prefix)) = prefix

\* searchMixin.add_param: (positiveSearch, rawParam, regEx), where the regEx is
\* Pattern(rawParam)
add_param(rawParam) ==
    [positiveSearch |-> ~StartsWith(NEG_CONFIG_PREFIX, rawParam), rawParam |-> rawParam]

\* the parameter lines of a configuration entry: foo, c and NEGATIVE__x
SearchParams == <<add_param("foo"), add_param("c"), add_param("NEGATIVE__x")>>

\* the same parameter lines with the positive ones in the other order
ReverseParams == <<add_param("c"), add_param("foo"), add_param("NEGATIVE__x")>>

\* the parameter lines foo and NEGATIVE__foobar
ExampleParams == <<add_param("foo"), add_param("NEGATIVE__foobar")>>

\* an entry of a configuration file: its verb and its processed parameter lines
ConfigEntry(verb, paramsProcessed) == [verb |-> verb, paramsProcessed |-> paramsProcessed]

\* "measure <module> <filter>"
MeasureEntry == ConfigEntry("measure", <<>>)

\* The entries that name Code with the same options, and so share its instance
CodeEntries ==
    { MeasureEntry,
      ConfigEntry("tempmeasure", SearchParams),
      ConfigEntry("routines", <<>>),
      ConfigEntry("routines", SearchParams),
      ConfigEntry("search", SearchParams),
      ConfigEntry("analyze", <<>>) }

\* The entries with the verb routines: the default routine pattern, and the
\* patterns of parameter lines
RoutineEntries == { ConfigEntry("routines", <<>>), ConfigEntry("routines", SearchParams) }

(***************************************************************************)
(* Input lines                                                             *)
(***************************************************************************)
RECURSIVE Terminated(_)
\* the lines of a text file, each with its terminator
Terminated(texts) ==
    IF texts = <<>> THEN <<>> ELSE <<Head(texts) \o "\n">> \o Terminated(Tail(texts))

Range(f) == { f[k] : k \in DOMAIN f }

PoolTexts ==
    << "", "}", "foo", "// c", "/*", "*/", "/* c", "c */",
       "/* c */ x", "x /* c */", "/* c */", "x/* c */", "// c */", "// a=1;",
       "do not edit", "region generated", "endregion",
       "/* region generated endregion", "keep endregion", "nodetect",
       "foo;}", "<%", "%>" >>

\* The C-style file of the worked example, and the files used as scenarios
ExampleFile == Terminated(<<"// header", "int x = 1;", "if (x) {", "  return x;", "}">>)

ScenarioFiles ==
    { ExampleFile,
      Terminated(<<"/*", "foo", "*/">>),
      Terminated(<<"int x;", "do not edit", "int y;">>),
      Terminated(<<"region generated", "nodetect", "foo">>),
      Terminated(<<"/* region generated endregion", "foo">>),
      Terminated(<<"", "x /* c */", "  ">>),
      Terminated(<<"<% x", "if (x)", "%>">>) }

LinePool == Range(Terminated(PoolTexts))

\* The lines drawn when every verb is explored
CodePoolTexts ==
    << "", "foo", "// c", "// foo", "/* c */ x", "x = 1; // c", "x /* c", "x /* c */", "if (x) foo;",
       "def f(x)", "  return;", "import os", "region generated", "endregion", "<%", "%>" >>

CodePool == Range(Terminated(CodePoolTexts))

\* Pairs of files with the same code: the second has a comment line and a
\* blank line more, or other white space inside or before its code
FilePairs ==
    { <<Terminated(<<"x = 1;">>), Terminated(<<"// c", "x = 1;", "">>)>>,
      <<Terminated(<<"x = 1;">>), Terminated(<<"x  =  1;">>)>>,
      <<Terminated(<<"x = 1;", "foo">>), Terminated(<<"x=1;", "", "foo">>)>>,
      <<Terminated(<<"foo">>), Terminated(<<"/* c */", "  foo">>)>>,
      <<Terminated(<<"foo", "x = 1;">>), Terminated(<<"foo", "// c", "x = 1;">>)>> }

\* The files surveyed with the verb routines: runs of routine start lines,
\* routines with decisions, escapes, cases and booleans, indented routines,
\* lines that return to the indent of the routine, and routines around a
\* machine block
TwoStarts == Terminated(<<"def f(x)", "def g(x)">>)

ThreeStarts == Terminated(<<"def f(x)", "def g(x)", "def h(x)", "foo", "foo">>)

EndsWithStart == Terminated(<<"foo", "def f(x)">>)

RoutineFiles ==
    { TwoStarts, ThreeStarts, EndsWithStart,
      Terminated(<<"def f(x)", "  if (x && y)", "    return;", "  case 1:", "  return;", "  break;">>),
      Terminated(<<"    public void f() { if (x) y; }", "      foo", "      bar">>),
      Terminated(<<"    public void f() { if (x) y; }", "      foo", "    foo">>),
      Terminated(<<"def f(x)", "    if (x)", "        if (y)", "bar">>),
      Terminated(<<"  def f(x)", "    foo", "  bar", "    baz", "qux">>),
      Terminated(<<"def f(x)", "foo", "bar">>),
      Terminated(<<"foo", "foo", "region generated", "endregion", "def f(x)", "  x", "def g(x)">>),
      Terminated(<<"def f(x)", "  foo", "region generated", "a", "endregion", "bar", "baz">>),
      Terminated(<<"", "// c", "def f(x)", "// c", "  x">>) }

\* Files for the verbs search and routines with parameter lines
SearchFiles ==
    { Terminated(<<"this has foobar in it", "this has foo in it">>),
      Terminated(<<"foo c", "c", "x foo">>) }

SearchEntries ==
    { ConfigEntry(verb, params) :
        verb \in {"search", "routines"}, params \in {SearchParams, ReverseParams, ExampleParams} }

\* The file surveyed first and the file surveyed after it
RoutinePairs == { <<f, f>> : f \in RoutineFiles } \cup { <<EndsWithStart, TwoStarts>> }

AllLines ==
    LinePool \cup CodePool \cup UNION { Range(f) : f \in ScenarioFiles }
    \cup UNION { Range(p[1]) \cup Range(p[2]) : p \in FilePairs }
    \cup UNION { Range(f) : f \in RoutineFiles }
    \cup UNION { Range(f) : f \in SearchFiles }

(***************************************************************************)
(* String helpers of the line loop                                         *)
(***************************************************************************)
RECURSIVE Split(_, _)
\* str.split(sep)
Split(s, sep) ==
    LET at == Find(sep, s)
    IN  IF at < 0 THEN <<s>>
        ELSE <<SubSeq(s, 1, at)>> \o Split(SubSeq(s, at + Len(sep) + 1, Len(s)), sep)

\* str.split(sep, 1)[0]
SplitFirst(s, sep) == LET at == Find(sep, s) IN IF at < 0 THEN s ELSE SubSeq(s, 1, at)

RECURSIVE Remove(_, _)
\* str.replace(c, '') for a single character c
Remove(c, s) ==
    LET at == Find(c, s)
    IN  IF at < 0 THEN s ELSE SubSeq(s, 1, at) \o Remove(c, SubSeq(s, at + 2, Len(s)))

\* utils.safe_string: the text of a line of an open text file is kept as it is
safe_string(bufferLine) == bufferLine

\* utils.strip_null_chars (a string of this language holds no null character)
strip_null_chars(rawString) == Remove("\n", rawString)

\* NBNC._preprocess_line: line[:self.maxLineLength], then strip_null_chars
PreprocessLine(line, maxLineLength) ==
    strip_null_chars(SubSeq(line, 1, IF Len(line) < maxLineLength THEN Len(line) ELSE maxLineLength))

\* a variant of the split below that is made on the preprocessed buffer line
\* (the variant C14 is checked against)
SplitPreprocessed(o, bufferLine) ==
    IF o.addLineSep # NoSep
    THEN Split(PreprocessLine(bufferLine, o.maxLineLength), o.addLineSep)
    ELSE <<PreprocessLine(bufferLine, o.maxLineLength)>>

\* the lines of the inner loop of _survey_lines for one buffer line
SplitLines(o, bufferLine) ==
    IF o.addLineSep # NoSep THEN Split(bufferLine, o.addLineSep) ELSE <<bufferLine>>

\* Code._strip_inlines: chop the line at each inline comment start in turn
StripInlinesFrom(line, k) ==
    IF line # "" /\ CharAt(line, 1) # "#" THEN SplitFirst(line, inlineCommentMatches[k]) ELSE line

StripInlines(strippedLine) ==
    StripInlinesFrom(StripInlinesFrom(StripInlinesFrom(strippedLine, 1), 2), 3)

\* a variant of the check below that finds no inline comment
\* (the variant C17 is checked against)
HasNoInlineComment(strippedLine) == FALSE

\* Code._has_inline_comment
HasInlineComment(strippedLine) ==
    \E k \in 1..Len(inlineCommentMatches) : Contains(inlineCommentMatches[k], strippedLine)

\* str.count(c) for a single character c
CountOf(c, s) == Cardinality({ k \in 1..Len(s) : CharAt(s, k) = c })

\* the printable characters of ASCII in code order: the space (32) to the
\* underscore (95), and a (97) to the tilde (126)
AsciiFromSpace ==
    " !\"#$%&'()*+,-./0123456789:;<=>?@ABCDEFGHIJKLMNOPQRSTUVWXYZ[\\]^_"

AsciiFromA == "abcdefghijklmnopqrstuvwxyz{|}~"

\* the byte str.encode() gives for a character of a line
Ord(c) ==
    IF c = "\n" THEN 10
    ELSE IF c = "\t" THEN 9
    ELSE IF Contains(c, AsciiFromSpace) THEN 32 + Find(c, AsciiFromSpace)
    ELSE 97 + Find(c, AsciiFromA)

\* str.encode() of the characters above, computed once
Encoded == [c \in CharsOf(AsciiFromSpace) \cup CharsOf(AsciiFromA) \cup {"\n", "\t"} |-> Ord(c)]

\* BASE of adler32: the largest prime below 2^16
AdlerBase == 65521

\* An Adler-32 checksum b * 2^16 + a is held as its halves a and b; the value 0
\* that the survey starts from has both halves 0
NoChecksum == [a |-> 0, b |-> 0]

RECURSIVE adler32Sums(_, _, _)
\* what the bytes lo..hi of data add to the halves of a checksum that starts
\* from 0: each byte is added to a, and every a is added to b, so that a byte
\* is in b once for itself and once for every byte after it
adler32Sums(data, lo, hi) ==
    IF lo > hi THEN NoChecksum
    ELSE IF lo = hi
    THEN [a |-> Encoded[CharAt(data, lo)],
          b |-> (Len(data) - lo + 1) * Encoded[CharAt(data, lo)]]
    ELSE LET first == adler32Sums(data, lo, (lo + hi) \div 2)
             second == adler32Sums(data, ((lo + hi) \div 2) + 1, hi)
         IN  [a |-> first.a + second.a, b |-> first.b + second.b]

\* zlib.adler32(data.encode(), value): a and b after the last byte, value.a
\* being in b once for every byte
adler32(data, value) ==
    LET sums == adler32Sums(data, 1, Len(data))
    IN  [a |-> (value.a + sums.a) % AdlerBase,
         b |-> (value.b + Len(data) * value.a + sums.b) % AdlerBase]

RECURSIVE SpacedOver(_, _, _)
SpacedOver(line, lo, hi) ==
    IF lo > hi THEN ""
    ELSE IF lo = hi THEN " " \o CharAt(line, lo)
    ELSE SpacedOver(line, lo, (lo + hi) \div 2) \o SpacedOver(line, ((lo + hi) \div 2) + 1, hi)

\* line.replace('', ' '): a space before every character and one at the end
Spaced(line) == SpacedOver(line, 1, Len(line)) \o " "

(***************************************************************************)
(* The patterns an instance compiles in _cs_init_config_options, held as   *)
(* what they yield on the strings they are applied to: the preprocessed    *)
(* lines of the inputs, what _strip_blanks_and_strings and _strip_inlines  *)
(* make of them, and the remainingLine groups of the comment patterns.     *)
(* The methods below take them as re, as the code takes them from self.    *)
(***************************************************************************)
PreLinesOf(o) ==
    { PreprocessLine(g, o.maxLineLength) : g \in UNION { Range(SplitLines(o, l)) : l \in AllLines } }

PreLines == UNION { PreLinesOf(o) : o \in Configs }

\* self.reStringLiteral.sub('', line).strip()
StripOf(line) == Strip(ReSub(reStringLiteral, line))

StrippedLines(pre) == pre \cup { StripOf(l) : l \in pre }

RestOf(n, t) == LET m == ReSearch(Pattern(n), t) IN IF Found(m) THEN {RemainingLine(m, t)} ELSE {}

RemainingLines(stripped) == UNION { RestOf("reMultiLineCommentsOpen", t) : t \in stripped }

SubjectsOf(stripped) ==
    AllLines \cup stripped \cup RemainingLines(stripped) \cup { StripInlines(t) : t \in stripped }

Subjects == SubjectsOf(StrippedLines(PreLines))

SearchNames ==
    { "reMultiLineCommentsOpen", "reMultiLineCommentsClose", "reDecision", "reDeadCode",
      "reRegionStart", "reRegionEnd", "reDoNotEdit", "reGeneratedBy", "reCodeGenerated",
      "reCreatedBy", "reScriptTagStart", "reScriptTagEnd", "reScriptStart", "reScriptEnd",
      "reSkipBlank", "reCases", "reEscapes", "reBooleans", "rePreprocessor", "reImports",
      "reClass", "reDefaultRoutine", "foo", "c", "NEGATIVE__x", "NEGATIVE__foobar" }

MatchNames ==
    { "reTrueBlankLine", "reBlankLine", "reBlankXmlLine", "reSingleLineComments",
      "reMultiLineCommentsOpen" }

\* utils.get_match_string of reDefaultRoutine.search(t): the text of its one
\* group, the first of the words in order after which the rest of the pattern
\* matches, stripped; '' when there is no match
RoutineName(t) ==
    LET m == ReSearch(reDefaultRoutine, t)
        fits == { k \in 1..Len(RoutineWords) :
                    Ends(Cat(<<Lit(RoutineWords[k]), RoutineOpen>>), t, m.start) # <<>> }
    IN  IF ~Found(m) THEN ""
        ELSE Strip(SubSeq(t, m.start + 1, m.start + Len(RoutineWords[MinOf(fits)])))

\* re.compile of each pattern, over the lines pre and the strings subjects
CompiledOver(pre, subjects) ==
    [ strip  |-> [l \in pre |-> StripOf(l)],
      search |-> [n \in SearchNames |-> [t \in subjects |-> ReSearch(Pattern(n), t)]],
      match  |-> [n \in MatchNames |-> [t \in subjects |-> ReMatch(Pattern(n), t)]],
      routine |-> [t \in subjects |-> RoutineName(t)] ]

Compiled == CompiledOver(PreLines, Subjects)

\* pattern.search(t) and pattern.match(t) of the pattern held by attribute n
Search(re, n, t) == re.search[n][t]

Match(re, n, t) == re.match[n][t]

\* NBNC._strip_blanks_and_strings: self.reStringLiteral.sub('', line).strip()
StripBlanksAndStrings(re, line) == re.strip[line]

(***************************************************************************)
(* The state of a csmodule instance during a survey                        *)
(***************************************************************************)
NumDetectors(o) == Len(BlockDetectorsOf(o.module))

Blocks(o) == 0..(NumDetectors(o) - 1)

\* the keys of self.counts: NBNC._survey_start, and those Code._survey_start adds
CountNames(o) ==
    {"RawLines", "SkippedLines", "TotalLines", "MeasureLines", "CommentLines",
     "FauxBlankLines", "TrueBlankLines"}
    \cup (IF o.module = "NBNC" THEN {}
          ELSE {"Imports", "Classes", "Routines", "Decisions", "DeadCode", "TemplateLines",
                "AsmComments", "TotalSearchHits", "Semicolons", "Preprocessor", "nbncCRC"})

ZeroCounts(o) ==
    [n \in CountNames(o) |-> [b \in Blocks(o) |-> IF n = "nbncCRC" THEN NoChecksum ELSE 0]]

\* self.counts[name][block] += n
Add(s, name, block, n) == [s EXCEPT !.counts[name][block] = @ + n]

RECURSIVE SumTo(_, _)
SumTo(f, k) == IF k < 0 THEN 0 ELSE f[k] + SumTo(f, k - 1)

\* sum(self.counts[name])
Sum(f) == SumTo(f, Cardinality(DOMAIN f) - 1)

\* Code._reset_routine_counts: self.currentRoutine
NoRoutine ==
    [ Name |-> "SURVEYOR( File lines grouped as routine )",
      RegEx |-> <<"", "">>,
      Line |-> "",
      LineNum |-> 0,
      LineCol |-> 0,
      LineIndent |-> 0,
      Decisions |-> 0,
      Booleans |-> 0,
      Cases |-> 0,
      Escapes |-> 0,
      MaxIndent |-> 0 ]

\* NBNC.__init__ and Code._cs_init_config_options: the instance as constructed
\* (an NBNC instance never reads the attributes that Code adds)
NewInstance(o) ==
    [ use_block_detection |-> TRUE,
      activeBlock |-> 0,
      activeBlockEndRe |-> "None",
      activeBlockIsSingleLine |-> FALSE,
      counts |-> ZeroCounts(o),
      matchTemplateLines |-> FALSE,
      searching |-> FALSE,
      measuringRoutines |-> FALSE,
      positiveSearches |-> <<>>,
      negativeSearches |-> <<>>,
      fileCrc |-> NoChecksum,
      currentRoutine |-> NoRoutine,
      routinePrevLineStart |-> FALSE,
      foundFirstRoutineSinceTransition |-> FALSE,
      totalNbncAtLastRoutine |-> [b \in Blocks(o) |-> 0],
      totalCommentsAtLastRoutine |-> [b \in Blocks(o) |-> 0] ]

RECURSIVE SetupSearchStrings(_, _)
\* searchMixin._setup_search_strings: the rawParam keys of the positive
\* (positive = TRUE) or of the negative dictionary, in the order of the entry
SetupSearchStrings(configParams, positive) ==
    IF configParams = <<>> THEN <<>>
    ELSE (IF Head(configParams).positiveSearch = positive
          THEN <<Head(configParams).rawParam>> ELSE <<>>)
         \o SetupSearchStrings(Tail(configParams), positive)

\* NBNC._survey_start and Code._survey_start
SurveyStartState(o, s, params) ==
    [s EXCEPT !.activeBlock = 0,
              !.activeBlockEndRe = "None",
              !.activeBlockIsSingleLine = FALSE,
              !.counts = ZeroCounts(o),
              !.positiveSearches = SetupSearchStrings(params, TRUE),
              !.negativeSearches = SetupSearchStrings(params, FALSE),
              !.fileCrc = NoChecksum,
              !.currentRoutine = NoRoutine,
              !.foundFirstRoutineSinceTransition = FALSE,
              !.totalNbncAtLastRoutine = [b \in Blocks(o) |-> 0],
              !.totalCommentsAtLastRoutine = [b \in Blocks(o) |-> 0]]

\* Code._alternate_line_processing, line 506: the checksum of the buffer lines
FileCrc(o, s, rawLine) ==
    IF o.module = "NBNC" THEN s ELSE [s EXCEPT !.fileCrc = adler32(rawLine, @)]

\* Code._survey down to its call of _survey_lines: the flags the verb sets
CodeSurvey(s, entry) ==
    LET cleared == [s EXCEPT !.searching = FALSE, !.measuringRoutines = FALSE]
    IN  CASE entry.verb = "tempmeasure" -> [cleared EXCEPT !.matchTemplateLines = TRUE]
          [] entry.verb = "routines" -> [cleared EXCEPT !.measuringRoutines = TRUE]
          [] entry.verb = "search" -> [cleared EXCEPT !.searching = TRUE]
          [] entry.verb \in {"measure", "analyze"} -> cleared

\* the params that Code._survey hands to _survey_lines
SurveyParams(entry) ==
    IF entry.verb \in {"measure", "analyze"} THEN <<>> ELSE entry.paramsProcessed

\* _survey of the csmodule: NBNC._survey sets nothing and hands on no params
Survey(o, s, entry) == IF o.module = "NBNC" THEN s ELSE CodeSurvey(s, entry)

ParamsOf(o, entry) == IF o.module = "NBNC" THEN <<>> ELSE SurveyParams(entry)

(***************************************************************************)
(* The steps of the line loop                                              *)
(***************************************************************************)
\* NBNC._alternate_line_processing: TRUE when the buffer line is skipped
AlternateLineProcessing(re, o, rawLine) ==
    o.reSkipLine # "None" /\ Found(Search(re, o.reSkipLine, rawLine))

\* the first start pattern that the line holds, blocks 1.. in order and the
\* pairs of a block in order; <<>> when there is none
FirstStart(re, o, line) ==
    LET ds == BlockDetectorsOf(o.module)
        hits == UNION { { <<b, k>> : k \in { j \in 1..Len(ds[b]) :
                                                Found(Search(re, ds[b][j].start, line)) } } :
                        b \in 2..Len(ds) }
        first == CHOOSE h \in hits : \A g \in hits :
                    h[1] < g[1] \/ (h[1] = g[1] /\ h[2] <= g[2])
    IN  IF hits = {} THEN <<>> ELSE <<first[1] - 1, ds[first[1]][first[2]].end>>

\* what a call of _detect_block_change leaves: the instance, the value returned,
\* the calls of _block_change_event, whether the call went past its three early
\* returns, and whether the start patterns were tried
Detected(s, changed, events, ran, startsTried) ==
    [self |-> s, changed |-> changed, events |-> events, ran |-> ran,
     startsTried |-> startsTried, rows |-> <<>>]

NotDetected(s) == Detected(s, FALSE, <<>>, FALSE, FALSE)

\* the same for a call that found the block changed: e is what
\* _block_change_event left
Changed(e, event, startsTried) ==
    [Detected(e.self, TRUE, <<event>>, TRUE, startsTried) EXCEPT !.rows = e.rows]

\* a variant of the check below that never looks at the end pattern
\* (the variant C10 is checked against)
StayInBlock(re, s, line) == s

\* _detect_block_change inside a block: "normal check for end of block"
InBlockStep(re, s, line) ==
    IF s.activeBlockEndRe # "None" /\ Found(Search(re, s.activeBlockEndRe, line))
    THEN [s EXCEPT !.activeBlock = 0, !.activeBlockEndRe = "None"]
    ELSE s

\* _detect_block_change outside any block: "check to see if new block starts"
EnterBlockStep(re, o, s, line) ==
    LET start == FirstStart(re, o, line)
    IN  IF start = <<>> THEN s
        ELSE [s EXCEPT !.activeBlock = start[1],
                       !.activeBlockEndRe = start[2],
                       !.activeBlockIsSingleLine =
                           (start[2] # "None" /\ Found(Search(re, start[2], line)))
                           \/ s.activeBlockIsSingleLine]

\* NBNC._block_change_event, as the record of one call: the block before, the
\* block now active, and the line
BlockChangeEvent(oldActiveBlock, s, line) ==
    [old |-> oldActiveBlock, new |-> s.activeBlock, line |-> line]

\* what a method that is handed analysis leaves: the instance and the rows it
\* appended
Analyzed(s, rows) == [self |-> s, rows |-> rows]

Max(a, b) == IF a > b THEN a ELSE b

\* a variant of the sum below that leaves the options out of account
\* (the variant C26 is checked against)
ComplexityOfAllCounts(o, r) == r.Decisions + Max(1, r.Escapes) + r.Cases + r.Booleans

\* Code._save_routine_info, lines 916-940: routineComplexity
RoutineComplexity(o, r) ==
    r.Decisions
    + (IF o.complexityInclEscapes THEN Max(1, r.Escapes) ELSE 0)
    + (IF o.complexityInclCases THEN r.Cases ELSE 0)
    + (IF o.complexityInclBooleans THEN r.Booleans ELSE 0)

\* Code._save_routine_info, lines 925-989: the row of a routine whose metrics
\* are computed (the rank labels, computed from the values below, are left out;
\* a number is held as it is where the code formats it with str)
RoutineRow(o, s, activeBlock, routineNbnc) ==
    ("routine.c-escapes" :> Max(1, s.currentRoutine.Escapes))
    @@ ("routine.c-decisions" :> s.currentRoutine.Decisions)
    @@ ("routine.c-cases" :> s.currentRoutine.Cases)
    @@ ("routine.c-booleans" :> s.currentRoutine.Booleans)
    @@ ("routine.nbnc" :> routineNbnc)
    @@ ("routine.maxNesting" :> s.currentRoutine.MaxIndent)
    @@ ("routine.complexity" :> RoutineComplexity(o, s.currentRoutine))
    @@ ("routine.name" :> Strip(s.currentRoutine.Name))
    @@ ("routine.line" :> Strip(s.currentRoutine.Line))
    @@ ("routine.lineNum" :> s.currentRoutine.LineNum)
    @@ ("routine.lineCol" :> s.currentRoutine.LineCol)
    @@ ("routine.lineNesting" :> s.currentRoutine.LineIndent)
    @@ ("routine.regex-full" :> s.currentRoutine.RegEx[2])
    @@ ("routine.regex" :> s.currentRoutine.RegEx[1])
    @@ ("routine.comments" :> s.counts["CommentLines"][activeBlock]
                              - s.totalCommentsAtLastRoutine[activeBlock])

\* Code._save_routine_info, lines 945-972: the row written only because of
\* _writeEmptyMeasures, when no metrics are computed
EmptyRoutineRow(s) ==
    ("routine.nbnc" :> 0)
    @@ ("routine.maxNesting" :> s.currentRoutine.MaxIndent)
    @@ ("routine.complexity" :> 0)
    @@ ("routine.name" :> "SURVEYOR(NO MEASURE)")
    @@ ("routine.line" :> Strip(s.currentRoutine.Line))
    @@ ("routine.lineNum" :> s.currentRoutine.LineNum)
    @@ ("routine.lineCol" :> s.currentRoutine.LineCol)
    @@ ("routine.lineNesting" :> s.currentRoutine.LineIndent)
    @@ ("routine.regex-full" :> s.currentRoutine.RegEx[2])
    @@ ("routine.regex" :> s.currentRoutine.RegEx[1])

\* a variant of the save below that writes the record of a routine whatever
\* its length (the variant C21 is checked against)
SaveEveryRoutine(o, s, activeBlock) ==
    LET computeMetrics == s.foundFirstRoutineSinceTransition \/ o.routineInclFileLines
        routineNbnc == s.counts["MeasureLines"][activeBlock] - s.totalNbncAtLastRoutine[activeBlock]
    IN  IF ~s.measuringRoutines THEN Analyzed(s, <<>>)
        ELSE IF activeBlock # o.measureBlock /\ ~o.routineSpanBlocks THEN Analyzed(s, <<>>)
        ELSE IF ~computeMetrics THEN Analyzed(s, <<>>)
        ELSE Analyzed([s EXCEPT !.totalNbncAtLastRoutine[activeBlock] =
                                    s.counts["MeasureLines"][activeBlock],
                                !.totalCommentsAtLastRoutine[activeBlock] =
                                    s.counts["CommentLines"][activeBlock]],
                      <<RoutineRow(o, s, activeBlock, routineNbnc)>>)

\* Code._save_routine_info
SaveRoutineInfo(o, s, activeBlock) ==
    LET computeMetrics == s.foundFirstRoutineSinceTransition \/ o.routineInclFileLines
        routineNbnc == s.counts["MeasureLines"][activeBlock] - s.totalNbncAtLastRoutine[activeBlock]
    IN  IF ~s.measuringRoutines THEN Analyzed(s, <<>>)
        ELSE IF activeBlock # o.measureBlock /\ ~o.routineSpanBlocks THEN Analyzed(s, <<>>)
        ELSE IF ~(routineNbnc > 1 \/ o.routineOutputSingle \/ o.writeEmptyMeasures)
        THEN Analyzed(s, <<>>)
        ELSE IF ~computeMetrics
        THEN IF o.writeEmptyMeasures
             THEN Analyzed([s EXCEPT !.currentRoutine.Name = "SURVEYOR(NO MEASURE)"],
                           <<EmptyRoutineRow(s)>>)
             ELSE Analyzed(s, <<>>)
        ELSE Analyzed([s EXCEPT !.totalNbncAtLastRoutine[activeBlock] =
                                    s.counts["MeasureLines"][activeBlock],
                                !.totalCommentsAtLastRoutine[activeBlock] =
                                    s.counts["CommentLines"][activeBlock]],
                      <<RoutineRow(o, s, activeBlock, routineNbnc)>>)

\* Code._reset_routine_counts after _save_routine_info, with the value that
\* _foundFirstRoutineSinceTransition is given
RoutineSaved(e, found) ==
    Analyzed([e.self EXCEPT !.foundFirstRoutineSinceTransition = found,
                            !.currentRoutine = NoRoutine],
             e.rows)

\* _block_change_event of the csmodule: NBNC's is empty, Code's ends the routine
CodeBlockChangeEvent(o, s, oldActiveBlock) ==
    IF o.module # "NBNC" /\ s.measuringRoutines /\ ~o.routineSpanBlocks
    THEN RoutineSaved(SaveRoutineInfo(o, s, oldActiveBlock), FALSE)
    ELSE Analyzed(s, <<>>)

\* a variant of the check below that finds the BLOCK_IGNORE string in no line
\* (the variant C12 is checked against)
NeverIgnoresBlockChange(o, line) == FALSE

\* _detect_block_change, line 407: self.blockChangeIgnore and self.blockChangeIgnore in line
IgnoresBlockChange(o, line) == o.blockChangeIgnore # "" /\ Contains(o.blockChangeIgnore, line)

RECURSIVE DetectBlockChange(_, _, _, _)
\* NBNC._detect_block_change
DetectBlockChange(re, o, s, line) ==
    IF ~s.use_block_detection THEN NotDetected(s)
    ELSE IF o.blockIgnoreFile # "" /\ Contains(o.blockIgnoreFile, line)
    THEN NotDetected([s EXCEPT !.use_block_detection = FALSE])
    ELSE IF IgnoresBlockChange(o, line)
    THEN NotDetected(s)
    ELSE IF s.activeBlock > 0 /\ s.activeBlockIsSingleLine
    THEN DetectBlockChange(re, o, [s EXCEPT !.activeBlockIsSingleLine = FALSE,
                                        !.activeBlock = 0,
                                        !.activeBlockEndRe = "None"], line)
    ELSE LET oldActiveBlock == s.activeBlock
             t == IF s.activeBlock > 0 THEN InBlockStep(re, s, line)
                  ELSE EnterBlockStep(re, o, s, line)
             blockChanged == oldActiveBlock # t.activeBlock
         IN  IF blockChanged
             THEN Changed(CodeBlockChangeEvent(o, t, oldActiveBlock),
                          BlockChangeEvent(oldActiveBlock, t, line), s.activeBlock = 0)
             ELSE Detected(t, FALSE, <<>>, TRUE, s.activeBlock = 0)

\* a variant of the check below that is made inside a multi-line comment too
\* (the variant C6 is checked against)
SingleLineCommentAnywhere(re, stripLine, scanningMultiLine) ==
    Found(Match(re, "reSingleLineComments", stripLine))

\* _detect_line_comment, lines 479-481: the single-line comment check, made only
\* outside a multi-line comment
SingleLineComment(re, stripLine, scanningMultiLine) ==
    ~scanningMultiLine /\ Found(Match(re, "reSingleLineComments", stripLine))

\* a variant of the rule below in which trailing content keeps the line from
\* being a comment line only when the open token is not first
\* (the variant C7 is checked against)
SameLineCloseUnlessFirst(o, commentFirst, remainingLine) ==
    ~(~o.sameLineMultiCloseAsComment /\ ~commentFirst /\ Strip(remainingLine) # "")

\* _detect_line_comment, lines 504-508: whether a line on which a multi-line
\* comment opens and closes is a comment line
SameLineCloseIsComment(o, commentFirst, remainingLine) ==
    ~(~o.sameLineMultiCloseAsComment /\ (~commentFirst \/ Strip(remainingLine) # ""))

\* NBNC._detect_line_comment: (onCommentLine, scanningMultiLine)
DetectLineComment(re, o, line, scanningMultiLine) ==
    LET stripLine == IF o.stripLineBeforeComments THEN StripBlanksAndStrings(re, line) ELSE line
        match == Search(re, "reMultiLineCommentsOpen", stripLine)
        rest == RemainingLine(match, stripLine)
        closeMatch == Search(re, "reMultiLineCommentsClose", rest)
        remainingLine == RemainingLine(closeMatch, rest)
        commentFirst == Found(Match(re, "reMultiLineCommentsOpen", stripLine))
    IN  IF SingleLineComment(re, stripLine, scanningMultiLine)
        THEN [onCommentLine |-> TRUE, scanningMultiLine |-> scanningMultiLine]
        ELSE IF scanningMultiLine
        THEN [onCommentLine |-> TRUE,
              scanningMultiLine |-> ~Found(Search(re, "reMultiLineCommentsClose", stripLine))]
        ELSE IF ~Found(match)
        THEN [onCommentLine |-> FALSE, scanningMultiLine |-> scanningMultiLine]
        ELSE IF ~Found(closeMatch)
        THEN [onCommentLine |-> TRUE, scanningMultiLine |-> TRUE]
        ELSE [onCommentLine |-> SameLineCloseIsComment(o, commentFirst, remainingLine),
              scanningMultiLine |-> FALSE]

\* a variant of the check below that counts no line as a faux blank
\* (the variant C4 is checked against)
NothingIsBlank(re, o, line) == FALSE

\* NBNC._detect_blank_line (reBlankLineAdd is None)
DetectBlankLine(re, o, line) ==
    \/ Found(Match(re, "reBlankLine", line))
    \/ (o.blankXmlLines /\ Found(Match(re, "reBlankXmlLine", line)))

\* what measuring a line leaves: the instance and the prefix given to _log_line
Measured(s, log) == [self |-> s, log |-> log]

\* NBNC._measure_line
NBNCMeasureLine(s, onCommentLine) ==
    IF onCommentLine THEN Measured(Add(s, "CommentLines", s.activeBlock, 1), "C")
    ELSE Measured(Add(s, "MeasureLines", s.activeBlock, 1), "")

\* searchMixin._find_positive_match: the key of the first positive search, in
\* the order of the dictionary, that the target holds; "None" when there is none
\* (the hit count kept beside each pattern is not read anywhere and is left out)
FindPositiveMatch(re, searchTarget, positiveSearches) ==
    LET hits == { k \in DOMAIN positiveSearches :
                    Found(Search(re, positiveSearches[k], searchTarget)) }
    IN  IF hits = {} THEN "None" ELSE positiveSearches[MinOf(hits)]

\* searchMixin._is_negative_match
IsNegativeMatch(re, searchTarget, negativeSearches) ==
    \E k \in DOMAIN negativeSearches : Found(Search(re, negativeSearches[k], searchTarget))

\* a variant of the search below that asks the negative searches only in the
\* negativeFirst mode (the variant C28 is checked against)
FirstMatchUnchecked(re, searchTarget, positiveSearches, negativeSearches, negativeFirst) ==
    IF negativeFirst /\ IsNegativeMatch(re, searchTarget, negativeSearches) THEN "None"
    ELSE FindPositiveMatch(re, searchTarget, positiveSearches)

\* searchMixin._first_match
FirstMatch(re, searchTarget, positiveSearches, negativeSearches, negativeFirst) ==
    IF negativeFirst
    THEN IF ~IsNegativeMatch(re, searchTarget, negativeSearches)
         THEN FindPositiveMatch(re, searchTarget, positiveSearches)
         ELSE "None"
    ELSE IF FindPositiveMatch(re, searchTarget, positiveSearches) # "None"
            /\ IsNegativeMatch(re, searchTarget, negativeSearches)
         THEN "None"
         ELSE FindPositiveMatch(re, searchTarget, positiveSearches)

\* a variant of the check below that asks the positive searches only
\* (the variant C18 is checked against)
IsPositiveLine(re, s, line) == FindPositiveMatch(re, line, s.positiveSearches) # "None"

\* Code._is_template_line
IsTemplateLine(re, s, line) ==
    FirstMatch(re, line, s.positiveSearches, s.negativeSearches, FALSE) # "None"

RECURSIVE Spaces(_)
Spaces(n) == IF n <= 0 THEN "" ELSE " " \o Spaces(n - 1)

\* the line from its character k on, which stands in column col: what precedes
\* the next tab is kept and the tab is filled up to the next tab stop
RECURSIVE ExpandTabsFrom(_, _, _, _)
ExpandTabsFrom(line, k, col, tabsize) ==
    LET tabs == { p \in k..Len(line) : CharAt(line, p) = "\t" }
        at == col + MinOf(tabs) - k
    IN  IF tabs = {} THEN SubSeq(line, k, Len(line))
        ELSE SubSeq(line, k, MinOf(tabs) - 1) \o Spaces(tabsize - (at % tabsize))
             \o ExpandTabsFrom(line, MinOf(tabs) + 1, at + tabsize - (at % tabsize), tabsize)

\* str.expandtabs(tabsize) of a line, which holds no line break
ExpandTabs(line, tabsize) == ExpandTabsFrom(line, 1, 0, tabsize)

\* len(expandedLine) - len(expandedLine.lstrip())
IndentDepth(expandedLine) ==
    LET text == { k \in 1..Len(expandedLine) : CharAt(expandedLine, k) \notin SpaceChars }
    IN  IF text = {} THEN Len(expandedLine) ELSE MinOf(text) - 1

\* no routineStartMatch
NoStart == [config |-> "None", pattern |-> "None", name |-> ""]

\* Code._detect_routine_start: the key of the search, the pattern that matched
\* and get_match_string of the match (the patterns of the parameter lines have
\* no groups; the text of the default pattern is held as its attribute name)
DetectRoutineStart(re, s, line) ==
    IF s.positiveSearches # <<>>
    THEN IF FirstMatch(re, line, s.positiveSearches, s.negativeSearches, TRUE) = "None"
         THEN NoStart
         ELSE [config |-> FirstMatch(re, line, s.positiveSearches, s.negativeSearches, TRUE),
               pattern |-> FirstMatch(re, line, s.positiveSearches, s.negativeSearches, TRUE),
               name |-> ""]
    ELSE IF Found(Search(re, "reDefaultRoutine", line))
    THEN [config |-> "reDefaultRoutine", pattern |-> "reDefaultRoutine", name |-> re.routine[line]]
    ELSE NoStart

\* a variant of the check below that takes a line at column 0 too
\* (the variant C24 is checked against)
DetectIndentAtAnyColumn(o, s, indentDepth) ==
    /\ o.routineIgnoreCol # 0 /\ indentDepth <= o.routineIgnoreCol
    /\ indentDepth <= s.currentRoutine.LineCol

\* Code._detect_indent_start
DetectIndentStart(o, s, indentDepth) ==
    /\ indentDepth # 0
    /\ o.routineIgnoreCol # 0 /\ indentDepth <= o.routineIgnoreCol
    /\ indentDepth <= s.currentRoutine.LineCol

\* Code._current_routine_ended: the instance it leaves and the value it returns
CurrentRoutineEnded(o, s, line, startMatch, indentDepth) ==
    IF (startMatch # NoStart \/ DetectIndentStart(o, s, indentDepth))
       /\ ~o.routineSingleLine /\ s.routinePrevLineStart
    THEN [self |-> [s EXCEPT !.currentRoutine.Line = @ \o line, !.routinePrevLineStart = FALSE],
          ended |-> FALSE]
    ELSE [self |-> [s EXCEPT !.routinePrevLineStart =
                                 startMatch # NoStart \/ DetectIndentStart(o, s, indentDepth)],
          ended |-> startMatch # NoStart \/ DetectIndentStart(o, s, indentDepth)]

\* Code._routine_analyze_impl, lines 829-840: the routine that starts on the line
RoutineStart(s, line, startMatch, indentDepth, nestingApprox) ==
    [NoRoutine EXCEPT !.Line = line,
                      !.LineNum = Sum(s.counts["RawLines"]),
                      !.LineCol = indentDepth,
                      !.LineIndent = nestingApprox,
                      !.Name = IF startMatch # NoStart THEN startMatch.name ELSE @,
                      !.RegEx = IF startMatch # NoStart
                                THEN <<startMatch.config, startMatch.pattern>> ELSE @]

\* Code._routine_analyze_impl, lines 824-849: what the start of a routine leaves,
\* e being what _save_routine_info and _reset_routine_counts left
RoutineStarted(e, line, startMatch, indentDepth, nestingApprox) ==
    Analyzed([Add(e.self, "Routines", e.self.activeBlock, IF startMatch # NoStart THEN 1 ELSE 0)
                 EXCEPT !.currentRoutine =
                            RoutineStart(e.self, line, startMatch, indentDepth, nestingApprox)],
             e.rows)

\* Code._routine_analyze_impl, lines 851-876: the counts of the line
\* (_includeStringContent is False)
RoutineLineCounts(re, a, complexLine, routineNest) ==
    LET Hit(n) == IF Found(Search(re, n, complexLine)) THEN 1 ELSE 0
    IN  Analyzed([Add(a.self, "Decisions", a.self.activeBlock, Hit("reDecision"))
                     EXCEPT !.currentRoutine.Decisions = @ + Hit("reDecision"),
                            !.currentRoutine.MaxIndent =
                                IF Hit("reDecision") = 1 /\ routineNest > @ THEN routineNest ELSE @,
                            !.currentRoutine.Escapes = @ + Hit("reEscapes"),
                            !.currentRoutine.Cases = @ + Hit("reCases"),
                            !.currentRoutine.Booleans = @ + Hit("reBooleans")],
                 a.rows)

\* Code._routine_analyze_impl from "Is this line the start of a routine?", c
\* being what _current_routine_ended left
RoutineAnalyzeFrom(re, o, c, line, startMatch, indentDepth, nestingApprox, routineNest) ==
    RoutineLineCounts(
        re,
        IF c.ended
        THEN RoutineStarted(RoutineSaved(SaveRoutineInfo(o, c.self, c.self.activeBlock), TRUE),
                            line, startMatch, indentDepth, nestingApprox)
        ELSE Analyzed(c.self, <<>>),
        StripInlines(StripBlanksAndStrings(re, line)),
        routineNest)

\* Code._routine_analyze_impl for a line of the given indent
RoutineAnalyzeAt(re, o, s, line, startMatch, indentDepth) ==
    RoutineAnalyzeFrom(re, o, CurrentRoutineEnded(o, s, line, startMatch, indentDepth), line,
                       startMatch, indentDepth, indentDepth \div o.routineAvgIndent,
                       (indentDepth \div o.routineAvgIndent) - s.currentRoutine.LineIndent)

\* Code._routine_analyze_impl
RoutineAnalyzeImpl(re, o, s, line) ==
    RoutineAnalyzeAt(re, o, s, line, DetectRoutineStart(re, s, line),
                     IndentDepth(ExpandTabs(line, o.routineAvgIndent)))

\* Code._measure_line_impl (_includeStringContent is False)
MeasureLineImpl(re, s, line, strippedLine) ==
    LET Hit(n) == IF Found(Search(re, n, strippedLine)) THEN 1 ELSE 0
    IN  [s EXCEPT !.counts["nbncCRC"][s.activeBlock] = adler32(Spaced(line), @),
                  !.counts["Semicolons"][s.activeBlock] = @ + CountOf(";", strippedLine),
                  !.counts["Imports"][s.activeBlock] = @ + Hit("reImports"),
                  !.counts["Classes"][s.activeBlock] = @ + Hit("reClass"),
                  !.counts["Preprocessor"][s.activeBlock] = @ + Hit("rePreprocessor"),
                  !.counts["Routines"][s.activeBlock] =
                      @ + (IF s.measuringRoutines THEN 0 ELSE Hit("reDefaultRoutine")),
                  !.counts["Decisions"][s.activeBlock] =
                      @ + (IF s.measuringRoutines THEN 0 ELSE Hit("reDecision"))]

\* Code._measure_line
CodeMeasureLine(re, o, s, line, onCommentLine) ==
    IF s.activeBlock = o.measureBlock
    THEN IF onCommentLine
         THEN IF s.matchTemplateLines /\ IsTemplateLine(re, s, line)
              THEN Measured(Add(s, "TemplateLines", s.activeBlock, 1), "F")
              ELSE IF o.inclDeadCode /\ Found(Search(re, "reDeadCode", line))
              THEN Measured(Add(s, "DeadCode", s.activeBlock, 1), "D")
              ELSE Measured(Add(s, "CommentLines", s.activeBlock, 1), "C")
         ELSE LET stripped == StripBlanksAndStrings(re, line)
                  hasInline == HasInlineComment(stripped)
                  strippedLine == IF hasInline THEN StripInlines(stripped) ELSE stripped
                  counted == Add(Add(s, "AsmComments", s.activeBlock, IF hasInline THEN 1 ELSE 0),
                                 "MeasureLines", s.activeBlock, 1)
              IN  Measured(MeasureLineImpl(re, counted, line, strippedLine),
                           IF o.commentsInclInline /\ hasInline THEN "I" ELSE "")
    ELSE IF s.activeBlock = MACHINE
         THEN Measured(Add(s, "MeasureLines", MACHINE, 1), "M")
         ELSE IF s.activeBlock = o.CONTENT
              THEN Measured(Add(s, "MeasureLines", o.CONTENT, 1), "+")
              ELSE Measured(s, "none")

MeasureLine(re, o, s, line, onCommentLine) ==
    IF o.module = "NBNC" THEN NBNCMeasureLine(s, onCommentLine)
    ELSE CodeMeasureLine(re, o, s, line, onCommentLine)

\* Code._search_line_impl (_includeStringContent and _includeComments are
\* False; the patterns of the parameter lines have no groups, so that
\* get_match_string gives ''; the pattern of a positive search is the text of
\* its parameter line)
SearchLineImpl(re, s, line) ==
    LET searchLine == StripInlines(StripBlanksAndStrings(re, line))
        origPatternStr == FirstMatch(re, searchLine, s.positiveSearches, s.negativeSearches, FALSE)
    IN  IF origPatternStr = "None" THEN Analyzed(s, <<>>)
        ELSE Analyzed(s, << ("search.line" :> Strip(line))
                            @@ ("search.linenum" :> Sum(s.counts["RawLines"]))
                            @@ ("search.match" :> "")
                            @@ ("search.regex-full" :> Strip(origPatternStr))
                            @@ ("search.regex" :> origPatternStr) >>)

\* Code._analyze_line (_onlyComments and _includeComments are False;
\* _analyze_line_impl is empty)
CodeAnalyzeLine(re, o, s, line, onCommentLine) ==
    IF s.activeBlock # o.measureBlock THEN Analyzed(s, <<>>)
    ELSE IF s.measuringRoutines /\ ~onCommentLine
    THEN RoutineAnalyzeImpl(re, o, s, line)
    ELSE IF ~onCommentLine /\ s.searching
    THEN SearchLineImpl(re, s, line)
    ELSE Analyzed(s, <<>>)

\* _analyze_line of the csmodule: NBNC's is empty
AnalyzeLine(re, o, s, line, onCommentLine) ==
    IF o.module = "NBNC" THEN Analyzed(s, <<>>)
    ELSE CodeAnalyzeLine(re, o, s, line, onCommentLine)

\* What one pass of the loop did, kept for the properties: the line, the prefix
\* it was logged with ("raw" for a buffer line handed to the inner loop, "none"
\* for a line no _log_line call reports), the instance before the pass, what block
\* detection left, and the comment scan flag before the pass, as handed to
\* _detect_line_comment, and after it
Seen(line, log, before, d, scanIn, scanUsed, c) ==
    [ line |-> line, log |-> log,
      blockIn |-> before.activeBlock,
      singleIn |-> before.activeBlockIsSingleLine,
      endReIn |-> before.activeBlockEndRe,
      useIn |-> before.use_block_detection,
      block |-> d.self.activeBlock,
      changed |-> d.changed, events |-> d.events, ran |-> d.ran,
      startsTried |-> d.startsTried,
      scanIn |-> scanIn, scanUsed |-> scanUsed,
      onCommentLine |-> c.onCommentLine, scanOut |-> c.scanningMultiLine ]

\* a pass that stops before block detection and comment detection
SeenUnclassified(line, log, s, scanning) ==
    Seen(line, log, s, NotDetected(s), scanning, scanning,
         [onCommentLine |-> FALSE, scanningMultiLine |-> scanning])

NothingSeen == SeenUnclassified("", "start", NewInstance(DefaultOptions("NBNC")), FALSE)

\* Code._routine_analyze_impl, line 817: int(indentDepth / self.routineAvgIndent)
\* raises ZeroDivisionError on every line _analyze_line hands to it
AnalyzeRaises(o, s, onCommentLine) ==
    /\ o.module # "NBNC"
    /\ s.activeBlock = o.measureBlock
    /\ s.measuringRoutines /\ ~onCommentLine
    /\ o.routineAvgIndent = 0

\* _survey_lines, line 341: _analyze_line on what _measure_line left as m; a
\* pass that an exception ends is logged as "E"
AnalyzePass(re, o, s, scanning, line, d, scanUsed, c, m) ==
    IF AnalyzeRaises(o, m.self, c.onCommentLine)
    THEN [ self |-> m.self,
           scanning |-> c.scanningMultiLine,
           seen |-> Seen(line, "E", s, d, scanning, scanUsed, c),
           rows |-> d.rows ]
    ELSE LET a == AnalyzeLine(re, o, m.self, line, c.onCommentLine)
         IN  [ self |-> a.self,
               scanning |-> c.scanningMultiLine,
               seen |-> Seen(line, m.log, s, d, scanning, scanUsed, c),
               rows |-> d.rows \o a.rows ]

\* _survey_lines, lines 336-340: the faux blank check, then _measure_line on
\* what block detection d and comment detection c left
MeasurePass(re, o, s, scanning, line, d, scanUsed, c) ==
    IF DetectBlankLine(re, o, line)
    THEN [ self |-> Add(d.self, "FauxBlankLines", d.self.activeBlock, 1),
           scanning |-> c.scanningMultiLine,
           seen |-> Seen(line, "B", s, d, scanning, scanUsed, c),
           rows |-> d.rows ]
    ELSE AnalyzePass(re, o, s, scanning, line, d, scanUsed, c,
                     MeasureLine(re, o, d.self, line, c.onCommentLine))

\* _survey_lines, lines 326-333: a block change d resets the comment scan, then
\* _detect_line_comment
CommentPass(re, o, s, scanning, line, d) ==
    IF d.changed
    THEN MeasurePass(re, o, s, scanning, line, d, FALSE, DetectLineComment(re, o, line, FALSE))
    ELSE MeasurePass(re, o, s, scanning, line, d, scanning,
                     DetectLineComment(re, o, line, scanning))

\* _survey_lines, lines 320-328: the true blank check, then _detect_block_change
\* when there are block detectors
BlockPass(re, o, s, counted, scanning, line) ==
    IF Found(Match(re, "reTrueBlankLine", line))
    THEN [ self |-> Add(counted, "TrueBlankLines", s.activeBlock, 1),
           scanning |-> scanning,
           seen |-> SeenUnclassified(line, "T", s, scanning),
           rows |-> <<>> ]
    ELSE IF NumDetectors(o) > 1
    THEN CommentPass(re, o, s, scanning, line, DetectBlockChange(re, o, counted, line))
    ELSE CommentPass(re, o, s, scanning, line, NotDetected(counted))

\* the body of "for rawLine in lines" of NBNC._survey_lines
LineStep(re, o, s, scanning, rawLine) ==
    BlockPass(re, o, s, Add(s, "TotalLines", s.activeBlock, 1), scanning,
              PreprocessLine(rawLine, o.maxLineLength))

(***************************************************************************)
(* Results of a survey                                                     *)
(***************************************************************************)
NoMeasures == [k \in {} |-> 0]

\* measurements[key] = value when cond
Measure(cond, key, value) == IF cond THEN key :> value ELSE NoMeasures

\* NBNC._survey_end
NBNCSurveyEnd(s) ==
    ("file.total" :> Sum(s.counts["TotalLines"]))
    @@ ("file.nbnc" :> Sum(s.counts["MeasureLines"]))
    @@ ("file.comment" :> Sum(s.counts["CommentLines"]))

\* Code._save_measures (the rank labels and the
\* byte ratio, computed from the measures below and the file size, are left out)
SaveMeasures(o, s) ==
    LET mb == o.measureBlock
        totalLines == Sum(s.counts["TotalLines"])
        rawLines == Sum(s.counts["RawLines"])
        ignoreLines == Sum(s.counts["SkippedLines"])
        nbncLines == s.counts["MeasureLines"][mb]
        machineLines == s.counts["MeasureLines"][MACHINE]
        contentLines == s.counts["MeasureLines"][o.CONTENT]
        inlineComments == s.counts["AsmComments"][mb]
        commentLines == s.counts["CommentLines"][mb]
                        + (IF o.commentsInclInline THEN inlineComments ELSE 0)
    IN  ("file.total" :> totalLines)
        @@ Measure(rawLines # totalLines, "file.rawTotal", rawLines)
        @@ Measure(ignoreLines # 0, "file.ignored", ignoreLines)
        @@ ("file.blankFaux" :> Sum(s.counts["FauxBlankLines"]))
        @@ ("file.blankTrue" :> Sum(s.counts["TrueBlankLines"]))
        @@ ("file.nbnc" :> nbncLines)
        @@ Measure(machineLines # 0, "file.machine", machineLines)
        @@ Measure(machineLines = 0 /\ o.writeEmptyMeasures, "file.machine", "")
        @@ Measure(contentLines # 0, "file.content", contentLines)
        @@ Measure(contentLines = 0 /\ o.writeEmptyMeasures, "file.content", "")
        @@ Measure(contentLines # 0 \/ o.writeEmptyMeasures, "file.code+content",
                   contentLines + nbncLines)
        @@ ("file.blank" :> s.counts["FauxBlankLines"][mb] + s.counts["TrueBlankLines"][mb])
        @@ ("file.comment" :> commentLines)
        @@ Measure(inlineComments # 0, "nbnc.inlineComments", inlineComments)
        @@ Measure(inlineComments = 0 /\ o.writeEmptyMeasures, "nbnc.inlineComments", "")
        @@ Measure(s.counts["DeadCode"][mb] # 0, "file.dead", s.counts["DeadCode"][mb])
        @@ Measure(s.counts["DeadCode"][mb] = 0 /\ o.writeEmptyMeasures, "file.dead", "")
        @@ Measure(s.counts["Semicolons"][mb] # 0, "nbnc.semicolons", s.counts["Semicolons"][mb])
        @@ Measure(s.counts["Preprocessor"][mb] # 0, "nbnc.preprocessor", s.counts["Preprocessor"][mb])
        @@ Measure(s.counts["TemplateLines"][mb] # 0, "file.template", s.counts["TemplateLines"][mb])
        @@ Measure(s.counts["nbncCRC"][mb] # NoChecksum, "nbnc.crc", s.counts["nbncCRC"][mb])
        @@ Measure(s.fileCrc # NoChecksum, "file.crc", s.fileCrc)
        @@ Measure(s.counts["Imports"][mb] # 0, "nbnc.imports", s.counts["Imports"][mb])
        @@ Measure(s.counts["Decisions"][mb] # 0, "nbnc.decisions", s.counts["Decisions"][mb])
        @@ Measure(s.counts["Routines"][mb] # 0, "nbnc.routines", s.counts["Routines"][mb])
        @@ Measure(s.counts["Classes"][mb] # 0, "nbnc.classes", s.counts["Classes"][mb])

\* _survey_end of the csmodule
SurveyEndMeasures(o, s) == IF o.module = "NBNC" THEN NBNCSurveyEnd(s) ELSE SaveMeasures(o, s)

\* a variant of the end of a survey below that packages the measures and leaves
\* the routine in flight as it is (the variant C22 is checked against)
SurveyEndUnflushed(o, s, rows) ==
    IF o.module = "NBNC" THEN [self |-> s, measures |-> NBNCSurveyEnd(s), rows |-> rows]
    ELSE [self |-> s, measures |-> SaveMeasures(o, s), rows |-> rows]

\* _survey_end of the csmodule, as what it leaves: the instance, the measures
\* and the analysis rows
SurveyEndState(o, s, rows) ==
    IF o.module = "NBNC" THEN [self |-> s, measures |-> NBNCSurveyEnd(s), rows |-> rows]
    ELSE [self |-> SaveRoutineInfo(o, s, s.activeBlock).self,
          measures |-> SaveMeasures(o, s),
          rows |-> rows \o SaveRoutineInfo(o, s, s.activeBlock).rows]

\* the value _survey returns: NBNC's is True, Code's is bool(analysis) for the
\* verbs analyze and search
WriteOutput(o, entry, rows) ==
    (o.module # "NBNC" /\ entry.verb \in {"analyze", "search"}) => rows # <<>>

(***************************************************************************)
(* Ranking labels                                                          *)
(***************************************************************************)
\* utils.MAX_RANK, sys.maxsize: the largest integer there is
MAX_RANK == 2147483647

\* the ranking tables of Code and of _BaseModule
CommentDensityRanks ==
    << <<0, "0%">>, <<4, "> 25%">>, <<10, "> 10%">>, <<20, "> 5%">>, <<MAX_RANK, "< 5%">> >>

FileSizeRanks ==
    << <<200, "1 to 200">>, <<600, "201 to 600">>, <<1800, "601 to 1800">>,
       <<MAX_RANK, "1800+">> >>

ImportRanks ==
    << <<4, "0 to 4">>, <<10, "5 to 10">>, <<20, "10 to 20">>, <<MAX_RANK, "21+">> >>

RoutineSizeRanks ==
    << <<50, "1 to 50">>, <<100, "51 to 100">>, <<200, "101 to 200">>, <<MAX_RANK, "200+">> >>

RoutineComplexityRanks ==
    << <<6, "1 to 6">>, <<14, "7 to 14">>, <<30, "15 to 30">>, <<MAX_RANK, "31+">> >>

MaxNestingRanks == << <<2, "0 to 2">>, <<5, "3 to 4">>, <<MAX_RANK, "5+">> >>

SameFilesInFolderRanks ==
    << <<10, "1 to 10">>, <<30, "11 to 30">>, <<100, "31 to 100">>, <<MAX_RANK, "100+">> >>

RankingMaps ==
    { CommentDensityRanks, FileSizeRanks, ImportRanks, RoutineSizeRanks,
      RoutineComplexityRanks, MaxNestingRanks, SameFilesInFolderRanks }

\* a value handed to match_ranking_label: the empty string, a count, or the
\* ratio of two counts
Ratio(num, den) == [empty |-> FALSE, num |-> num, den |-> den]

Whole(n) == Ratio(n, 1)

EmptyValue == [empty |-> TRUE, num |-> 0, den |-> 1]

\* float(value) <= float(threshold), for a denominator above 0 and a threshold
\* that is not negative
FloatAtMost(value, threshold) ==
    value.num <= threshold \/ value.num <= threshold * value.den

RECURSIVE RankFrom(_, _, _)
\* "for (threshold, rank) in rankingMap" of match_ranking_label from pair k on
RankFrom(rankingMap, value, k) ==
    IF k > Len(rankingMap) THEN ""
    ELSE IF FloatAtMost(value, rankingMap[k][1]) THEN rankingMap[k][2]
    ELSE RankFrom(rankingMap, value, k + 1)

\* a variant of match_ranking_label whose bounds are exclusive
\* (the variant C32 is checked against)
RankBelowBound(rankingMap, value) ==
    IF value.empty THEN ""
    ELSE LET below == { k \in 1..Len(rankingMap) :
                          FloatAtMost(value, rankingMap[k][1])
                          /\ value.num # rankingMap[k][1] * value.den }
         IN  IF below = {} THEN "" ELSE rankingMap[MinOf(below)][2]

\* utils.match_ranking_label
match_ranking_label(rankingMap, value) ==
    IF value.empty THEN "" ELSE RankFrom(rankingMap, value, 1)

(***************************************************************************)
(* The configuration options a csmodule is constructed with                *)
(***************************************************************************)
\* the options of ConfigOptions_base, ConfigOptions_NBNC and ConfigOptions_Code
\* that are followed here
ConfigOptionDict ==
    { "CONTINUE_ON_ERROR", "MAX_LINE_LENGTH", "SKIP_LINES", "ROUTINE_NESTING_INDENT",
      "ROUTINE_IGNORE_COLUMN" }

\* the value of a decimal digit
DigitValue(c) == CHOOSE k \in 0..9 : CharAt("0123456789", k + 1) = c

RECURSIVE IntOfDigits(_)
IntOfDigits(s) ==
    IF s = "" THEN 0
    ELSE 10 * IntOfDigits(SubSeq(s, 1, Len(s) - 1)) + DigitValue(CharAt(s, Len(s)))

\* int(optValue) for a value without sign, blanks or underscores raises
\* ValueError when the value is empty or holds a character that is no digit
IsInt(optValue) == optValue # "" /\ CharsOf(optValue) \subseteq Digits

\* int(optValue) otherwise
IntOf(optValue) == IntOfDigits(optValue)

\* re.compile(optValue, self._reFlags): "error" for a pattern whose groups are
\* not closed, and the pattern otherwise, held by its name
ReCompile(optValue) ==
    IF CountOf("(", optValue) # CountOf(")", optValue) THEN "error"
    ELSE IF optValue = "^\\s*$" THEN "reSkipBlank"
    ELSE "None"

\* what applying an option leaves: the exception raised and the options of the
\* csmodule
Applied(exception, o) == [exception |-> exception, opt |-> o]

\* exec(configCode) of _BaseModule.__init__ for the option optName with the
\* value optValue
ExecConfigCode(o, optName, optValue) ==
    CASE optName = "CONTINUE_ON_ERROR" -> Applied("None", ContinueOnError(o))
      [] optName = "MAX_LINE_LENGTH" ->
            IF IsInt(optValue) THEN Applied("None", MaxLineLength(o, IntOf(optValue)))
            ELSE Applied("ValueError", o)
      [] optName = "SKIP_LINES" ->
            IF ReCompile(optValue) # "error"
            THEN Applied("None", SkipLines(o, ReCompile(optValue)))
            ELSE Applied("error", o)
      [] optName = "ROUTINE_NESTING_INDENT" ->
            IF IsInt(optValue)
            THEN Applied("None", [o EXCEPT !.routineAvgIndent = IntOf(optValue)])
            ELSE Applied("ValueError", o)
      [] optName = "ROUTINE_IGNORE_COLUMN" ->
            IF IsInt(optValue)
            THEN Applied("None", [o EXCEPT !.routineIgnoreCol = IntOf(optValue)])
            ELSE Applied("ValueError", o)

\* the body of "for optName, optValue in configOptions" of _BaseModule.__init__:
\* a KeyError and an exception of exec are raised as CsModuleException
ConfigOptionApplied(o, option) ==
    IF option[1] \notin ConfigOptionDict THEN Applied("CsModuleException", o)
    ELSE IF ExecConfigCode(o, option[1], option[2]).exception # "None"
    THEN Applied("CsModuleException", o)
    ELSE ExecConfigCode(o, option[1], option[2])

\* the options still to apply and the exception that ended the construction
Configuring(configOptions) == [options |-> configOptions, exception |-> "None"]

\* a csmodule that is constructed
NoConfig == Configuring(<<>>)

\* no job is running
NoJob == [phase |-> "none"]

\* no function of the framework is called on its own
NoCall == [function |-> "None"]

(***************************************************************************)
(* The job worker that measures the files of a work package                *)
(***************************************************************************)
\* jobworker.Worker.__init__ and the options of the work items: the output of
\* the callbacks of the current file (their number), the errors of the current
\* file, the output of the package so far, the output queue, the exception
\* that ends _run, and whether the work package has been posted; raised keeps
\* the files whose measurement raised an exception
NewWorker(breakOnError) ==
    [ continueProcessing |-> TRUE,
      breakOnError |-> breakOnError,
      currentFileOutput |-> 0,
      currentFileErrors |-> <<>>,
      currentOutput |-> <<>>,
      outputQueue |-> <<>>,
      exception |-> "None",
      posted |-> FALSE,
      raised |-> {} ]

\* Worker.file_measured_callback
FileMeasuredCallback(w) == [w EXCEPT !.currentFileOutput = @ + 1]

\* a variant of the except clauses below that records no error
\* (the variant C30 is checked against)
MeasureFileSwallows(w, e) ==
    [w EXCEPT !.continueProcessing =
                  IF e \in {"FileMeasureError", "EnvironmentError"} THEN ~w.breakOnError ELSE @]

\* Worker._measure_file, the except clauses: the error is kept for the file,
\* and the value returned, on which _run stops, is not options.breakOnError for
\* a FileMeasureError and an EnvironmentError and True for any other exception
MeasureFileExcept(w, e) ==
    [w EXCEPT !.currentFileErrors = Append(@, e),
              !.continueProcessing =
                  IF e \in {"FileMeasureError", "EnvironmentError"} THEN ~w.breakOnError ELSE @]

\* Worker._file_complete
FileComplete(w, file) ==
    [w EXCEPT !.currentOutput =
                  IF w.currentFileOutput # 0 \/ w.currentFileErrors # <<>>
                  THEN Append(@, [file |-> file, output |-> w.currentFileOutput,
                                  errors |-> w.currentFileErrors])
                  ELSE @,
              !.currentFileOutput = 0,
              !.currentFileErrors = <<>>]

\* Worker._post_results: the output of the package is put on the output queue,
\* or the queue is full and a JobException ends _run
PostedResults(w, full) ==
    [w EXCEPT !.outputQueue = IF full THEN @ ELSE Append(@, w.currentOutput),
              !.exception = IF full THEN "JobException" ELSE @,
              !.continueProcessing = IF full THEN FALSE ELSE @,
              !.currentOutput = <<>>,
              !.posted = TRUE]

\* a variant of the except clause below that never raises
\* (the variant C29 is checked against)
SurveyLinesSwallows(o) == "None"

\* NBNC._survey_lines, the except clause: the exception that leaves the method,
\* "None" when the loop goes on with the next buffer line
SurveyLinesExcept(o) == IF o.stopOnError THEN "FileMeasureError" ELSE "None"

(***************************************************************************)
(* The state machine: one csmodule instance surveying files                *)
(***************************************************************************)
\* buffer lines of a file whose lines are not fixed in advance
MaxLines == 3

\* surveys run on the one instance
MaxSurveys == 2

\* buffer lines of such a file when every verb is explored
MaxCodeLines == 2

VARIABLES opt, self, scanningMultiLine, lines, pc, surveys, feed, configEntry, measurements,
          analysis, history, last, worker, config, job, call

vars == <<opt, self, scanningMultiLine, lines, pc, surveys, feed, configEntry, measurements,
          analysis, history, last, worker, config, job, call>>

\* What the job feeds the instance: the file surveyed first and the file
\* surveyed after it (when their lines are fixed in advance) or the pool the
\* lines are drawn from and how many are drawn, the
\* configuration entries that name the instance, and whether the checksums of
\* the lines are followed
Feed(file, next, fixed, pool, maxLines, entries, checksums) ==
    [file |-> file, next |-> next, fixed |-> fixed, pool |-> pool, maxLines |-> maxLines,
     entries |-> entries, checksums |-> checksums]

\* A csmodule constructed from a configuration, about to survey files whose
\* lines are drawn from the pool as they are read
Init ==
    /\ opt \in Configs
    /\ self = NewInstance(opt)
    /\ scanningMultiLine = FALSE
    /\ lines = <<>>
    /\ pc = "idle"
    /\ surveys = 0
    /\ feed = Feed(<<>>, <<>>, FALSE, LinePool, MaxLines, {MeasureEntry}, FALSE)
    /\ configEntry = MeasureEntry
    /\ measurements = NoMeasures
    /\ analysis = <<>>
    /\ history = <<>>
    /\ last = NothingSeen
    /\ worker = NewWorker(FALSE)
    /\ config = NoConfig
    /\ job = NoJob
    /\ call = NoCall

\* The same, about to survey one given file, once and again
InitFile ==
    /\ opt \in Configs
    /\ self = NewInstance(opt)
    /\ scanningMultiLine = FALSE
    /\ lines = <<>>
    /\ pc = "idle"
    /\ surveys = 0
    /\ feed \in { Feed(f, f, TRUE, {}, 0, {MeasureEntry}, TRUE) : f \in ScenarioFiles }
    /\ configEntry = MeasureEntry
    /\ measurements = NoMeasures
    /\ analysis = <<>>
    /\ history = <<>>
    /\ last = NothingSeen
    /\ worker = NewWorker(FALSE)
    /\ config = NoConfig
    /\ job = NoJob
    /\ call = NoCall

\* A Code csmodule that the entries of a configuration file share, each with
\* its own verb
InitCode ==
    /\ opt \in CodeConfigs
    /\ self = NewInstance(opt)
    /\ scanningMultiLine = FALSE
    /\ lines = <<>>
    /\ pc = "idle"
    /\ surveys = 0
    /\ feed = Feed(<<>>, <<>>, FALSE, CodePool, MaxCodeLines, CodeEntries, FALSE)
    /\ configEntry = MeasureEntry
    /\ measurements = NoMeasures
    /\ analysis = <<>>
    /\ history = <<>>
    /\ last = NothingSeen
    /\ worker = NewWorker(FALSE)
    /\ config = NoConfig
    /\ job = NoJob
    /\ call = NoCall

\* Code csmodules about to survey two files that hold the same code
InitPair ==
    /\ opt \in PairConfigs
    /\ self = NewInstance(opt)
    /\ scanningMultiLine = FALSE
    /\ lines = <<>>
    /\ pc = "idle"
    /\ surveys = 0
    /\ feed \in { Feed(p[1], p[2], TRUE, {}, 0, {MeasureEntry}, TRUE) : p \in FilePairs }
    /\ configEntry = MeasureEntry
    /\ measurements = NoMeasures
    /\ analysis = <<>>
    /\ history = <<>>
    /\ last = NothingSeen
    /\ worker = NewWorker(FALSE)
    /\ config = NoConfig
    /\ job = NoJob
    /\ call = NoCall

\* Code csmodules about to survey files for their routines
InitRoutine ==
    /\ opt \in RoutineConfigs
    /\ self = NewInstance(opt)
    /\ scanningMultiLine = FALSE
    /\ lines = <<>>
    /\ pc = "idle"
    /\ surveys = 0
    /\ feed \in { Feed(p[1], p[2], TRUE, {}, 0, RoutineEntries, FALSE) : p \in RoutinePairs }
    /\ configEntry = MeasureEntry
    /\ measurements = NoMeasures
    /\ analysis = <<>>
    /\ history = <<>>
    /\ last = NothingSeen
    /\ worker = NewWorker(FALSE)
    /\ config = NoConfig
    /\ job = NoJob
    /\ call = NoCall

\* A Code instance with default options surveys two of the search files, each
\* with the verb search or routines and one of the sets of parameter lines
InitSearch ==
    /\ opt = DefaultOptions("Code")
    /\ self = NewInstance(opt)
    /\ scanningMultiLine = FALSE
    /\ lines = <<>>
    /\ pc = "idle"
    /\ surveys = 0
    /\ feed \in { Feed(f, g, TRUE, {}, 0, SearchEntries, FALSE) : f \in SearchFiles, g \in SearchFiles }
    /\ configEntry = MeasureEntry
    /\ measurements = NoMeasures
    /\ analysis = <<>>
    /\ history = <<>>
    /\ last = NothingSeen
    /\ worker = NewWorker(FALSE)
    /\ config = NoConfig
    /\ job = NoJob
    /\ call = NoCall

\* The files of a work package
WorkerFiles ==
    { Terminated(<<"foo", "x = 1; // c">>), Terminated(<<"// c", "x = 1;">>) }

\* The configurations of the csmodule that measures them
WorkerConfigs ==
    { DefaultOptions("Code"), ContinueOnError(DefaultOptions("Code")),
      ContinueOnError(AddLineSep(DefaultOptions("Code"), ";")) }

\* A worker about to measure the files of a work package with a Code csmodule,
\* with or without -breakOnError
InitWorker ==
    /\ opt \in WorkerConfigs
    /\ self = NewInstance(opt)
    /\ scanningMultiLine = FALSE
    /\ lines = <<>>
    /\ pc = "idle"
    /\ surveys = 0
    /\ feed \in { Feed(f, g, TRUE, {}, 0, {MeasureEntry}, FALSE) :
                    f \in WorkerFiles, g \in WorkerFiles }
    /\ configEntry = MeasureEntry
    /\ measurements = NoMeasures
    /\ analysis = <<>>
    /\ history = <<>>
    /\ last = NothingSeen
    /\ \E breakOnError \in BOOLEAN : worker = NewWorker(breakOnError)
    /\ config = NoConfig
    /\ job = NoJob
    /\ call = NoCall

\* The options of a configuration file that names the Code csmodule
ConfigOptions ==
    { <<"NO_SUCH_OPTION", "">>, <<"CONTINUE_ON_ERROR", "">>,
      <<"MAX_LINE_LENGTH", "255">>, <<"MAX_LINE_LENGTH", "x">>,
      <<"SKIP_LINES", "^\\s*$">>, <<"SKIP_LINES", "(">>,
      <<"ROUTINE_NESTING_INDENT", "2">>, <<"ROUTINE_NESTING_INDENT", "0">>,
      <<"ROUTINE_NESTING_INDENT", "">>, <<"ROUTINE_IGNORE_COLUMN", "2">> }

\* options of a csmodule in one configuration entry
MaxOptions == 2

\* The files surveyed by the csmodule constructed from them
ConfigFiles == { TwoStarts, Terminated(<<"// c", "x = 1;">>) }

\* Code.__init__ after _cs_init_config_options, about to apply the options of
\* its configuration entry; the csmodule then measures files under the verbs
\* measure and routines
InitConfig ==
    /\ opt = DefaultOptions("Code")
    /\ self = NewInstance(opt)
    /\ scanningMultiLine = FALSE
    /\ lines = <<>>
    /\ pc = "config"
    /\ surveys = 0
    /\ feed \in { Feed(f, f, TRUE, {}, 0, {entry}, FALSE) :
                    f \in ConfigFiles,
                    entry \in {MeasureEntry, ConfigEntry("routines", SearchParams)} }
    /\ configEntry = MeasureEntry
    /\ measurements = NoMeasures
    /\ analysis = <<>>
    /\ history = <<>>
    /\ last = NothingSeen
    /\ worker = NewWorker(FALSE)
    /\ config \in { Configuring(options) :
                      options \in UNION { [1..n -> ConfigOptions] : n \in 0..MaxOptions } }
    /\ job = NoJob
    /\ call = NoCall

\* the values ranked: counts around every bound of the tables, ratios of
\* counts, and the empty string
RankedValues ==
    { Whole(n) : n \in {-1, 0, 1, 2, 3, 4, 5, 6, 7, 10, 11, 14, 15, 20, 21, 30, 31, 50, 51,
                        100, 101, 200, 201, 600, 601, 1800, 1801, MAX_RANK - 1, MAX_RANK} }
    \cup { Ratio(n, 2) : n \in {1, 7, 8, 9, 20, 21, 41} }
    \cup { Ratio(n, 3) : n \in {1, 12, 13, 31} }
    \cup { EmptyValue }

\* the variables of the csmodule, the worker and the job at rest
AtRest ==
    /\ opt = DefaultOptions("Code")
    /\ self = NewInstance(opt)
    /\ scanningMultiLine = FALSE
    /\ lines = <<>>
    /\ pc = "idle"
    /\ surveys = 0
    /\ feed = Feed(<<>>, <<>>, TRUE, {}, 0, {MeasureEntry}, FALSE)
    /\ configEntry = MeasureEntry
    /\ measurements = NoMeasures
    /\ analysis = <<>>
    /\ history = <<>>
    /\ last = NothingSeen
    /\ worker = NewWorker(FALSE)
    /\ config = NoConfig

\* a call of match_ranking_label with one of the tables and a value
InitRank ==
    /\ AtRest
    /\ job = NoJob
    /\ call \in { [function |-> "match_ranking_label", rankingMap |-> m, value |-> v,
                   returned |-> FALSE, label |-> ""] : m \in RankingMaps, v \in RankedValues }

\* buffer lines read so far in this survey
LinesRead == Sum(self.counts["RawLines"])

\* the file of the survey, when its lines are fixed in advance
File == IF surveys = 0 THEN feed.file ELSE feed.next

\* the buffer lines the file can yield next
NextLines ==
    IF feed.fixed
    THEN IF LinesRead < Len(File) THEN {File[LinesRead + 1]} ELSE {}
    ELSE IF LinesRead < feed.maxLines THEN feed.pool ELSE {}

\* the instance with its checksums as they are followed here
Followed(s) ==
    IF feed.checksums THEN s
    ELSE [s EXCEPT !.fileCrc = NoChecksum,
                   !.counts = [n \in DOMAIN s.counts |->
                                 IF n = "nbncCRC" THEN [b \in DOMAIN s.counts[n] |-> NoChecksum]
                                 ELSE s.counts[n]]]

\* process_file and _survey down to the loop of _survey_lines: the verb of the
\* entry sets the flags of the instance, then _survey_start,
\* scanningMultiLine = False
SurveyStart ==
    /\ pc = "idle"
    /\ surveys < MaxSurveys
    /\ worker.continueProcessing /\ ~worker.posted
    /\ \E entry \in feed.entries :
         /\ configEntry' = entry
         /\ self' = SurveyStartState(opt, Survey(opt, self, entry), ParamsOf(opt, entry))
    /\ scanningMultiLine' = FALSE
    /\ lines' = <<>>
    /\ pc' = "lines"
    /\ measurements' = NoMeasures
    /\ analysis' = <<>>
    /\ last' = NothingSeen
    /\ UNCHANGED <<opt, config, job, call, surveys, feed, history, worker>>

\* "for bufferLine in linesToSurvey" down to the split into lines
ReadBufferLine ==
    /\ pc = "lines"
    /\ lines = <<>>
    /\ \E rawBuffer \in NextLines :
         LET bufferLine == safe_string(rawBuffer)
             counted == Followed(FileCrc(opt, Add(self, "RawLines", self.activeBlock, 1),
                                         bufferLine))
         IN  IF AlternateLineProcessing(Compiled, opt, bufferLine)
             THEN /\ self' = Add(counted, "SkippedLines", self.activeBlock, 1)
                  /\ lines' = <<>>
                  /\ last' = SeenUnclassified(bufferLine, "-", self, scanningMultiLine)
             ELSE /\ self' = counted
                  /\ lines' = SplitLines(opt, bufferLine)
                  /\ last' = SeenUnclassified(bufferLine, "raw", self, scanningMultiLine)
    /\ UNCHANGED <<opt, config, job, call, scanningMultiLine, pc, surveys, feed, configEntry,
                   measurements, analysis, history, worker>>

\* an exception leaves process_file before the callback is called: _measure_file
\* keeps the error and completes the file; s is the instance as the exception
\* left it
Raise(e, s) ==
    /\ self' = s
    /\ scanningMultiLine' = FALSE
    /\ lines' = <<>>
    /\ pc' = "idle"
    /\ surveys' = surveys + 1
    /\ measurements' = NoMeasures
    /\ analysis' = <<>>
    /\ worker' = [FileComplete(MeasureFileExcept(worker, e), surveys + 1)
                     EXCEPT !.raised = @ \cup {surveys + 1}]
    /\ UNCHANGED <<opt, config, job, call, feed, configEntry, history>>

\* what the except clause of _survey_lines makes of an exception raised in the
\* try block, s, scanning and rows being what the block had done before: the
\* loop goes on with the next buffer line, or FileMeasureError is raised
Caught(s, scanning, rows) ==
    IF SurveyLinesExcept(opt) = "None"
    THEN /\ self' = s
         /\ scanningMultiLine' = scanning
         /\ analysis' = analysis \o rows
         /\ lines' = <<>>
         /\ UNCHANGED <<opt, config, job, call, pc, surveys, feed, configEntry, measurements, history, worker>>
    ELSE Raise(SurveyLinesExcept(opt), s)

\* what a pass r of the loop leaves behind
Leave(r) ==
    /\ self' = Followed(r.self)
    /\ scanningMultiLine' = r.scanning
    /\ analysis' = analysis \o r.rows
    /\ last' = r.seen

\* one pass of "for rawLine in lines", and the except clause when the pass
\* raises an exception
ProcessLine ==
    /\ pc = "lines"
    /\ lines # <<>>
    /\ LET r == LineStep(Compiled, opt, self, scanningMultiLine, Head(lines))
       IN  IF r.seen.log = "E"
           THEN /\ last' = r.seen
                /\ Caught(Followed(r.self), r.scanning, r.rows)
           ELSE /\ Leave(r)
                /\ lines' = Tail(lines)
                /\ UNCHANGED <<opt, config, job, call, pc, surveys, feed, configEntry, measurements,
                               history, worker>>

\* what _survey_end and process_file make of the survey e left: the measures and
\* the analysis rows handed to file_measured_callback (every measure passes the
\* measure filter), none when _survey returns False
Results(o, entry, e) ==
    IF WriteOutput(o, entry, e.rows)
    THEN [self |-> e.self,
          measures |-> IF o.module # "NBNC" /\ entry.verb = "analyze" THEN NoMeasures
                       ELSE e.measures,
          rows |-> e.rows]
    ELSE [self |-> e.self, measures |-> NoMeasures, rows |-> <<>>]

\* file_measured_callback(filePath, measureResults, analysisResults)
Deliver(r) ==
    /\ self' = r.self
    /\ measurements' = r.measures
    /\ analysis' = r.rows
    /\ history' = IF feed.fixed THEN Append(history, r.measures) ELSE history

\* the end of the file: _survey_end, process_file packages the results and
\* hands them to the callback of the worker, and _measure_file completes the
\* file (each survey is the one configuration item of a work item)
SurveyEnd ==
    /\ pc = "lines"
    /\ lines = <<>>
    /\ feed.fixed => LinesRead = Len(File)
    /\ Deliver(Results(opt, configEntry, SurveyEndState(opt, self, analysis)))
    /\ surveys' = surveys + 1
    /\ pc' = "idle"
    /\ worker' = FileComplete(FileMeasuredCallback(worker), surveys + 1)
    /\ UNCHANGED <<opt, config, job, call, scanningMultiLine, lines, feed, configEntry, last>>

Next == SurveyStart \/ ReadBufferLine \/ ProcessLine \/ SurveyEnd

\* _alternate_line_processing raises an exception on a buffer line
ReadFault ==
    /\ pc = "lines"
    /\ lines = <<>>
    /\ \E rawBuffer \in NextLines :
         /\ last' = SeenUnclassified(safe_string(rawBuffer), "E", self, scanningMultiLine)
         /\ Caught(Add(self, "RawLines", self.activeBlock, 1), scanningMultiLine, <<>>)

\* a pass of "for rawLine in lines" raises an exception, at its start (after
\* TotalLines is counted) or at its end (after _analyze_line)
LineFault ==
    /\ pc = "lines"
    /\ lines # <<>>
    /\ last' = SeenUnclassified(Head(lines), "E", self, scanningMultiLine)
    /\ \E late \in BOOLEAN :
         LET r == LineStep(Compiled, opt, self, scanningMultiLine, Head(lines))
         IN  IF late
             THEN Caught(Followed(r.self), r.scanning, r.rows)
             ELSE Caught(Add(self, "TotalLines", self.activeBlock, 1), scanningMultiLine, <<>>)

\* reading the next buffer line raises an exception ("for bufferLine in
\* linesToSurvey" and utils.safe_string are outside the try block): it leaves
\* process_file as it is
SurveyFault ==
    /\ pc = "lines"
    /\ lines = <<>>
    /\ NextLines # {}
    /\ last' = SeenUnclassified("", "R", self, scanningMultiLine)
    /\ Raise("Exception", self)

\* _open_file raises an EnvironmentError for the next file of the package
OpenFault ==
    /\ pc = "idle"
    /\ surveys < MaxSurveys
    /\ worker.continueProcessing /\ ~worker.posted
    /\ last' = SeenUnclassified("", "O", self, scanningMultiLine)
    /\ Raise("EnvironmentError", self)

\* _run after the last file of the work package, or after the file on which
\* _measure_file returned False: _post_results
PostResults ==
    /\ pc = "idle"
    /\ ~worker.posted
    /\ surveys = MaxSurveys \/ ~worker.continueProcessing
    /\ \E full \in BOOLEAN : worker' = PostedResults(worker, full)
    /\ UNCHANGED <<opt, config, job, call, self, scanningMultiLine, lines, pc, surveys, feed,
                   configEntry, measurements, analysis, history, last>>

NextWorker ==
    \/ SurveyStart \/ ReadBufferLine \/ ProcessLine \/ SurveyEnd
    \/ ReadFault \/ LineFault \/ SurveyFault \/ OpenFault \/ PostResults

\* _BaseModule.__init__, one pass of "for optName, optValue in configOptions": a
\* CsModuleException ends the construction
ConfigOption ==
    /\ pc = "config"
    /\ config.options # <<>>
    /\ LET applied == ConfigOptionApplied(opt, Head(config.options))
       IN  IF applied.exception # "None"
           THEN /\ config' = [config EXCEPT !.exception = applied.exception]
                /\ pc' = "failed"
                /\ opt' = opt
           ELSE /\ config' = [config EXCEPT !.options = Tail(@)]
                /\ pc' = pc
                /\ opt' = applied.opt
    /\ UNCHANGED <<job, call, self, scanningMultiLine, lines, surveys, feed, configEntry,
                   measurements, analysis, history, last, worker>>

\* the constructor returns the csmodule
Constructed ==
    /\ pc = "config"
    /\ config.options = <<>>
    /\ pc' = "idle"
    /\ self' = NewInstance(opt)
    /\ UNCHANGED <<opt, config, job, call, scanningMultiLine, lines, surveys, feed, configEntry,
                   measurements, analysis, history, last, worker>>

NextConfig ==
    \/ ConfigOption \/ Constructed
    \/ SurveyStart \/ ReadBufferLine \/ ProcessLine \/ SurveyEnd

\* the variables of the csmodule and of the worker
surveyVars ==
    <<opt, self, scanningMultiLine, lines, pc, surveys, feed, configEntry, measurements,
      analysis, history, last, worker, config>>

\* utils.match_ranking_label returns
MatchRankingLabel ==
    /\ call.function = "match_ranking_label"
    /\ ~call.returned
    /\ call' = [call EXCEPT !.returned = TRUE,
                            !.label = match_ranking_label(call.rankingMap, call.value)]
    /\ UNCHANGED <<surveyVars, job>>

NextRank == MatchRankingLabel

Spec == Init /\ [][Next]_vars

SpecFile == InitFile /\ [][Next]_vars

SpecCode == InitCode /\ [][Next]_vars

SpecPair == InitPair /\ [][Next]_vars

SpecRoutine == InitRoutine /\ [][Next]_vars

SpecSearch == InitSearch /\ [][Next]_vars

SpecWorker == InitWorker /\ [][NextWorker]_vars

SpecConfig == InitConfig /\ [][NextConfig]_vars

SpecRank == InitRank /\ [][NextRank]_vars

(***************************************************************************)
(* Properties                                                              *)
(***************************************************************************)
\* a survey has run to its end and its results are packaged
Finished == pc = "idle" /\ surveys > 0

\* the last pass went through block detection and comment detection
Classified == last.log \notin {"start", "raw", "-", "T"}

\* ^\s*$ said without the matcher: every character is white space
AllSpace(s) == \A k \in 1..Len(s) : CharAt(s, k) \in SpaceChars

Count(name, b) == self.counts[name][b]

\* C1: after surveying any file, for every block b, TrueBlankLines[b] +
\* FauxBlankLines[b] + CommentLines[b] + MeasureLines[b] = TotalLines[b].
C1_BlockSums ==
    Finished =>
        \A b \in Blocks(opt) :
            Count("TrueBlankLines", b) + Count("FauxBlankLines", b)
            + Count("CommentLines", b) + Count("MeasureLines", b) = Count("TotalLines", b)

\* C2: surveying the same lines again with the same configuration and verb, on
\* the same csmodule instance, yields identical measurements.
C2_Idempotent == \A i, j \in DOMAIN history : history[i] = history[j]

\* What a pass over a white-space line must leave: the line counted in
\* TotalLines and TrueBlankLines of the active block and nothing else touched
TrueBlankOnly ==
    /\ self' = Add(Add(self, "TotalLines", self.activeBlock, 1),
                   "TrueBlankLines", self.activeBlock, 1)
    /\ scanningMultiLine' = scanningMultiLine
    /\ last'.log = "T"
    /\ last'.events = <<>>
    /\ ~last'.ran

\* What skipping a buffer line must leave: the line counted in RawLines and
\* SkippedLines of the active block, nothing handed to the inner loop
SkippedOnly ==
    /\ opt.reSkipLine # "None"
    /\ self' = Add(Add(self, "RawLines", self.activeBlock, 1),
                   "SkippedLines", self.activeBlock, 1)
    /\ scanningMultiLine' = scanningMultiLine
    /\ lines' = <<>>

\* C3 (as amended): every line that reaches the inner loop and matches ^\s*$ is
\* a true blank, whatever else is configured: it increments TotalLines and
\* TrueBlankLines only, and block detection, comment detection, faux-blank
\* detection and measuring do not run on it.  A white-space buffer line that
\* SKIP_LINES matches never reaches the inner loop: it is skipped.
C3_TrueBlankWins ==
    [][ /\ (pc = "lines" /\ lines # <<>> /\ AllSpace(Head(lines))) => TrueBlankOnly
        /\ (pc = "lines" /\ lines = <<>> /\ self' # self /\ last'.log = "-") => SkippedOnly ]_vars

\* C3 as stated: every line matching ^\s*$ is classified as true blank
\* regardless of any other configured regex.
C3_AlwaysTrueBlank ==
    (last.log \notin {"start", "raw"} /\ AllSpace(last.line)) => last.log = "T"

\* a white-space line met inside a multi-line comment of a machine block
C3_Witness ==
    last.log = "T" /\ scanningMultiLine /\ self.activeBlock > 0 /\ last.useIn

\* the input of C4
DelimiterFile == Terminated(<<"/*", "foo", "*/">>)

\* C4 (as amended): with block 0 measured, the input '/*', 'foo', '*/' yields 1
\* comment line, 2 faux blank lines (the lines that hold only a delimiter open
\* and close the comment but count as blank) and 0 measured lines.
C4_DelimiterLinesBlank ==
    (Finished /\ feed.file = DelimiterFile /\ opt.measureBlock = 0) =>
        /\ Sum(self.counts["CommentLines"]) = 1
        /\ Sum(self.counts["FauxBlankLines"]) = 2
        /\ Sum(self.counts["MeasureLines"]) = 0
        /\ measurements["file.comment"] = 1
        /\ measurements["file.nbnc"] = 0

\* C4 as stated: the input '/*', 'foo', '*/' yields 3 comment lines and 0
\* measured lines.
C4_ThreeCommentLines ==
    (Finished /\ feed.file = DelimiterFile /\ opt.measureBlock = 0) =>
        /\ Sum(self.counts["CommentLines"]) = 3
        /\ Sum(self.counts["MeasureLines"]) = 0

C4_Witness ==
    Finished /\ feed.file = DelimiterFile /\ opt = DefaultOptions("Code") /\ surveys = 1

\* C5 (as amended): the five lines of the example, surveyed by Code with its
\* default configuration, yield file.nbnc = 3, file.blankFaux = 1 (the line that
\* holds only the closing brace), file.comment = 1, file.total = 5 and
\* nbnc.decisions = 1.
C5_Example ==
    (Finished /\ feed.file = ExampleFile /\ opt = DefaultOptions("Code")) =>
        /\ measurements["file.nbnc"] = 3
        /\ measurements["file.blankFaux"] = 1
        /\ measurements["file.comment"] = 1
        /\ measurements["file.total"] = 5
        /\ measurements["nbnc.decisions"] = 1

\* C5 as stated: the example yields file.nbnc = 4, file.comment = 1,
\* file.total = 5 and nbnc.decisions = 1.
C5_ExampleAsStated ==
    (Finished /\ feed.file = ExampleFile /\ opt = DefaultOptions("Code")) =>
        /\ measurements["file.nbnc"] = 4
        /\ measurements["file.comment"] = 1
        /\ measurements["file.total"] = 5
        /\ measurements["nbnc.decisions"] = 1

C5_Witness ==
    Finished /\ feed.file = ExampleFile /\ opt = DefaultOptions("Code") /\ surveys = 2

\* the close tokens of the default close pattern, and the subject line of
\* comment detection
CloseTokens == {"*/", "]]", "=cut", "=end", "|#", "-}", "-->", "--%>"}

CommentSubject(line) == IF opt.stripLineBeforeComments THEN StripBlanksAndStrings(Compiled, line) ELSE line

ClosesComment(line) == \E t \in CloseTokens : Contains(t, CommentSubject(line))

\* a multi-line comment opens on the line and does not close on it
OpensWithoutClose(line) ==
    LET t == CommentSubject(line)
        open == Search(Compiled, "reMultiLineCommentsOpen", t)
    IN  /\ ~Found(Match(Compiled, "reSingleLineComments", t))
        /\ Found(open)
        /\ ~(\E c \in CloseTokens : Contains(c, RemainingLine(open, t)))

\* C6: once a line opens a multi-line comment without closing it, every later
\* line of the block that is not a true blank is marked as comment, the
\* single-line pattern not being consulted, up to and including the first line
\* that holds a close token; the scan flag is cleared on that line and carried
\* unchanged across every other line.
C6_Scanning ==
    /\ last.log # "start" => scanningMultiLine = last.scanOut
    /\ last.log = "start" => ~scanningMultiLine
    /\ ~Classified => last.scanOut = last.scanIn
    /\ (Classified /\ ~last.changed) => last.scanUsed = last.scanIn
    /\ (Classified /\ last.scanUsed) =>
           /\ last.onCommentLine
           /\ last.scanOut <=> ~ClosesComment(last.line)
    /\ (Classified /\ ~last.scanUsed) => (last.scanOut <=> OpensWithoutClose(last.line))

\* inside a multi-line comment, a line that starts like a single-line comment
\* and holds the close token ends the comment
C6_Witness ==
    Classified /\ last.scanUsed /\ ~last.scanOut /\ last.onCommentLine
    /\ Found(Match(Compiled, "reSingleLineComments", last.line))

\* a multi-line comment opens and closes on the line (outside any comment)
OpensAndCloses(line) ==
    LET t == CommentSubject(line)
        open == Search(Compiled, "reMultiLineCommentsOpen", t)
    IN  /\ ~Found(Match(Compiled, "reSingleLineComments", t))
        /\ Found(open)
        /\ \E c \in CloseTokens : Contains(c, RemainingLine(open, t))

\* what follows the first close token after the open token
AfterClose(line) ==
    LET t == CommentSubject(line)
        rest == RemainingLine(Search(Compiled, "reMultiLineCommentsOpen", t), t)
    IN  RemainingLine(Search(Compiled, "reMultiLineCommentsClose", rest), rest)

\* the open pattern matches at the very start of the subject line
OpenFirst(line) == Found(Match(Compiled, "reMultiLineCommentsOpen", CommentSubject(line)))

\* C7 (as amended): with COMMENT_CLOSE_CODE, a line on which a multi-line
\* comment opens and closes is a comment line only if the open pattern matches
\* at the start of the line and nothing but white space follows the close
\* token; without the option every such line is a comment line.  In all cases
\* the scan flag is false after the line.
C7_SameLineClose ==
    (Classified /\ ~last.scanUsed /\ OpensAndCloses(last.line)) =>
        /\ ~last.scanOut
        /\ last.onCommentLine <=>
              \/ opt.sameLineMultiCloseAsComment
              \/ (OpenFirst(last.line) /\ Strip(AfterClose(last.line)) = "")

\* C7 as stated: with COMMENT_CLOSE_CODE such a line is not a comment line if
\* content follows the close token, unless the open token is first on the line.
C7_AsStated ==
    (Classified /\ ~last.scanUsed /\ OpensAndCloses(last.line)) =>
        /\ ~last.scanOut
        /\ last.onCommentLine <=>
              \/ opt.sameLineMultiCloseAsComment
              \/ ~(Strip(AfterClose(last.line)) # "" /\ ~OpenFirst(last.line))

\* with the option, the open token first and code after the close token
C7_Witness ==
    /\ Classified /\ ~last.scanUsed /\ OpensAndCloses(last.line)
    /\ ~opt.sameLineMultiCloseAsComment
    /\ OpenFirst(last.line) /\ Strip(AfterClose(last.line)) # ""
    /\ ~last.onCommentLine

\* C8: whenever the active block used for a line differs from the active block
\* of the line before, the scan flag is false when comment detection runs on it.
C8_ResetOnTransition == (Classified /\ last.block # last.blockIn) => ~last.scanUsed

\* C9: on any transition of the active block exactly one block-change event is
\* emitted, carrying the block active before and the block active after; no
\* event is emitted without a transition.
C9_OneEventPerTransition ==
    Classified =>
        last.events = IF last.block # last.blockIn
                      THEN << [old |-> last.blockIn, new |-> last.block, line |-> last.line] >>
                      ELSE <<>>

\* C10: blocks do not nest.  On a line met in block b > 0 (the line after a
\* single-line block apart) no start pattern is tried; the block after the line
\* is b or 0, and it is 0 exactly when block detection ran on the line, b has
\* an end pattern and the line holds it.  No other step changes the block.
C10_NoNesting ==
    /\ last.log # "start" => self.activeBlock = last.block
    /\ ~Classified => last.block = last.blockIn
    /\ (Classified /\ last.blockIn > 0 /\ ~(last.ran /\ last.singleIn)) =>
           /\ ~last.startsTried
           /\ last.block \in {last.blockIn, 0}
           /\ last.block = 0 <=>
                 /\ last.ran
                 /\ last.endReIn # "None"
                 /\ Found(Search(Compiled, last.endReIn, last.line))

\* inside a script block of a web page, a line that holds a machine-block start
\* pattern leaves the block as it is
C10_Witness ==
    /\ Classified /\ last.blockIn = 2 /\ last.block = 2 /\ last.ran
    /\ Found(Search(Compiled, "reDoNotEdit", last.line))

\* the last step was a pass of the loop over the lines of a buffer line
PassedLine == last.log \notin {"start", "raw", "-"}

\* C11: the line processed after a single-line block is never attributed to that
\* block: when a line is met in a block b > 0 that was opened and closed on one
\* line, the block is put back to 0 and the line is tried for a block start.
C11_NextLineLeavesBlock ==
    (PassedLine /\ last.blockIn > 0 /\ last.singleIn) => last.startsTried

\* the counters of which a line that passes the loop raises one
LineCounters == {"TrueBlankLines", "FauxBlankLines", "CommentLines", "MeasureLines", "DeadCode"}

\* the change of the line counters of block b from instance s to instance t
LinesAdded(s, t, b) ==
    LET names == LineCounters \cap DOMAIN s.counts
        RECURSIVE Total(_)
        Total(ns) == IF ns = {} THEN 0
                     ELSE LET n == CHOOSE x \in ns : TRUE
                          IN  t.counts[n][b] - s.counts[n][b] + Total(ns \ {n})
    IN  Total(names)

\* the line holds the string configured with BLOCK_IGNORE
HoldsIgnore(line) == opt.blockChangeIgnore # "" /\ Contains(opt.blockChangeIgnore, line)

\* C12: a line that holds the BLOCK_IGNORE string leaves the active block, the
\* active end pattern and the single-line flag as they were, emits no
\* block-change event, and is counted as one line of the block that was active.
C12_IgnoreLine ==
    [][ (lines # <<>> /\ HoldsIgnore(last'.line)) =>
            /\ self'.activeBlock = self.activeBlock
            /\ self'.activeBlockEndRe = self.activeBlockEndRe
            /\ self'.activeBlockIsSingleLine = self.activeBlockIsSingleLine
            /\ last'.events = <<>> /\ ~last'.changed
            /\ \A b \in Blocks(opt) :
                 LinesAdded(self, self', b) = IF b = self.activeBlock THEN 1 ELSE 0 ]_vars

\* inside a machine block, a line that holds both the BLOCK_IGNORE string and
\* the end pattern of the block is measured as a line of the block
C12_Witness ==
    /\ PassedLine /\ HoldsIgnore(last.line)
    /\ last.useIn /\ last.blockIn = 1 /\ last.endReIn # "None"
    /\ Found(Search(Compiled, last.endReIn, last.line))
    /\ last.block = 1 /\ self.counts["MeasureLines"][1] > 0

\* the line holds the phrase configured with BLOCK_IGNORE_FILE
HoldsStop(line) == opt.blockIgnoreFile # "" /\ Contains(opt.blockIgnoreFile, line)

\* C13: the BLOCK_IGNORE_FILE phrase stops block detection for the rest of the
\* file it occurs in, and for that file only: a line that reaches block
\* detection with the phrase turns detection off, the active block does not
\* change while detection is off, and every file starts with detection on.
C13_StopsForThisFileOnly ==
    [][ /\ (lines # <<>> /\ last'.log # "T" /\ HoldsStop(last'.line)) =>
              ~self'.use_block_detection
        /\ (pc = "lines" /\ ~self.use_block_detection) =>
              self'.activeBlock = self.activeBlock
        /\ (pc = "idle" /\ pc' = "lines") => self'.use_block_detection ]_vars

\* C15: no pattern is applied to a string longer than the maximum line length:
\* not the skip pattern, applied to the buffer line by
\* _alternate_line_processing, and not the patterns of the line loop, applied to
\* the line the loop classifies.
C15_LengthCap ==
    /\ (last.log \in {"raw", "-"} /\ opt.reSkipLine # "None") =>
           Len(last.line) <= opt.maxLineLength
    /\ PassedLine => Len(last.line) <= opt.maxLineLength

\* a buffer line was handed to the inner loop in the last step
ReadStep == pc = "lines" /\ lines = <<>> /\ last'.log = "raw"

\* what block detection leaves of the instance on which TotalLines is raised
AfterTotalLines(line) ==
    IF NumDetectors(opt) > 1
    THEN DetectBlockChange(Compiled, opt, Add(self, "TotalLines", self.activeBlock, 1), line)
    ELSE NotDetected(Add(self, "TotalLines", self.activeBlock, 1))

\* the stages of one pass over a line that is preprocessed already, each on
\* what the stage before it left
StagesInOrder(line) ==
    LET d == AfterTotalLines(line)
        c == DetectLineComment(Compiled, opt, line, IF d.changed THEN FALSE ELSE scanningMultiLine)
        m == MeasureLine(Compiled, opt, d.self, line, c.onCommentLine)
        a == AnalyzeLine(Compiled, opt, m.self, line, c.onCommentLine)
    IN  /\ last'.line = line
        /\ IF AllSpace(line)
           THEN /\ last'.log = "T"
                /\ self' = Followed(Add(Add(self, "TotalLines", self.activeBlock, 1),
                                        "TrueBlankLines", self.activeBlock, 1))
                /\ scanningMultiLine' = scanningMultiLine
                /\ analysis' = analysis
           ELSE /\ scanningMultiLine' = c.scanningMultiLine
                /\ IF DetectBlankLine(Compiled, opt, line)
                   THEN /\ last'.log = "B"
                        /\ self' = Followed(Add(d.self, "FauxBlankLines", d.self.activeBlock, 1))
                        /\ analysis' = analysis \o d.rows
                   ELSE /\ last'.log = m.log
                        /\ self' = Followed(a.self)
                        /\ analysis' = analysis \o d.rows \o a.rows

\* the lines, each preprocessed
Preprocessed(ls) == [k \in DOMAIN ls |-> PreprocessLine(ls[k], opt.maxLineLength)]

\* C14 as stated: a buffer line is preprocessed, then split on the separator,
\* and each of the lines goes through the true blank check, block detection,
\* comment detection, the faux blank check, measure and analyze in this order.
C14_PreprocessThenSplit ==
    [][ /\ ReadStep =>
              Preprocessed(lines') =
                  IF opt.addLineSep # NoSep
                  THEN Split(PreprocessLine(last'.line, opt.maxLineLength), opt.addLineSep)
                  ELSE <<PreprocessLine(last'.line, opt.maxLineLength)>>
        /\ lines # <<>> => StagesInOrder(PreprocessLine(Head(lines), opt.maxLineLength)) ]_vars

\* C14: a buffer line is split on the separator as it was read, then each of
\* the lines is preprocessed (cut to the maximum length, null characters and
\* line ends removed) and goes through the true blank check (which ends the
\* pass), block detection, comment detection, the faux blank check (which ends
\* the pass), measure and analyze, each on what the stage before it left.
C14_SplitThenPreprocess ==
    [][ /\ ReadStep =>
              lines' = IF opt.addLineSep # NoSep THEN Split(last'.line, opt.addLineSep)
                       ELSE <<last'.line>>
        /\ lines # <<>> => StagesInOrder(PreprocessLine(Head(lines), opt.maxLineLength)) ]_vars

\* a buffer line longer than the maximum length was split into lines that the
\* split of the preprocessed buffer line does not give
C14_Witness ==
    /\ last.log = "raw" /\ lines # <<>>
    /\ opt.addLineSep # NoSep /\ Len(last.line) > opt.maxLineLength
    /\ Preprocessed(lines) # Split(PreprocessLine(last.line, opt.maxLineLength), opt.addLineSep)

\* the counters that Code._measure_line and _measure_line_impl keep beside the
\* coarse count of measured lines
DetailedCounters ==
    {"Imports", "Classes", "Decisions", "Routines", "Semicolons", "Preprocessor", "DeadCode",
     "TemplateLines", "AsmComments", "CommentLines", "nbncCRC"}

\* the last step measured a line in a block that is not the measure block
MeasuredOutside ==
    /\ lines # <<>> /\ opt.module # "NBNC"
    /\ last'.log \notin {"T", "B"}
    /\ last'.block # opt.measureBlock

\* the line that is measured outside the measure block changes no detailed counter
DetailedKept == \A n \in DetailedCounters : self'.counts[n] = self.counts[n]

\* C16: a line measured while the active block differs from the measure block
\* changes none of the detailed counters and raises the MeasureLines count of
\* the active block, and of no other block, by one, whichever block is the
\* measure block.
C16_CoarseCountOnly ==
    [][ MeasuredOutside =>
            /\ DetailedKept
            /\ self'.counts["MeasureLines"] =
                   [self.counts["MeasureLines"] EXCEPT ![last'.block] = @ + 1] ]_vars

\* the part of it that the code keeps: no detailed counter changes
DetailedOnlyInMeasureBlock == [][ MeasuredOutside => DetailedKept ]_vars

\* the last step measured a line in the measure block of a Code csmodule
MeasuredInside ==
    /\ lines # <<>> /\ opt.module # "NBNC"
    /\ last'.log \notin {"T", "B"}
    /\ last'.block = opt.measureBlock

\* the line without its string literals and outer white space
Stripped(line) == StripBlanksAndStrings(Compiled, line)

\* the line holds an inline comment marker
HoldsInlineMarker(line) ==
    \E k \in 1..Len(inlineCommentMatches) : Contains(inlineCommentMatches[k], Stripped(line))

\* the line starts with code, and the marker follows it
CodeBefore(marker, line) ==
    /\ Find(marker, Stripped(line)) > 0
    /\ ~Found(Match(Compiled, "reSingleLineComments", Stripped(line)))

\* the count of block b is raised by n in the last step
Raised(name, b, n) == self'.counts[name][b] = self.counts[name][b] + n

\* the line is counted once as code and once as an inline comment
CodeAndInline ==
    /\ Raised("MeasureLines", opt.measureBlock, 1)
    /\ Raised("AsmComments", opt.measureBlock, 1)
    /\ \A n \in {"CommentLines", "DeadCode", "TemplateLines"} : Raised(n, opt.measureBlock, 0)

\* a survey ends in the last step and its measures are handed on
MeasuresSaved == pc = "lines" /\ pc' = "idle" /\ "file.comment" \in DOMAIN measurements'

\* file.comment holds the inline comments unless INLINE_EXCLUDE is set
CommentsWithInline ==
    measurements'["file.comment"] =
        self.counts["CommentLines"][opt.measureBlock]
        + (IF opt.commentsInclInline THEN self.counts["AsmComments"][opt.measureBlock] ELSE 0)

RulesMatch(line) ==
    /\ \E k \in DOMAIN self.positiveSearches :
          Found(Search(Compiled, self.positiveSearches[k], line))
    /\ \A k \in DOMAIN self.negativeSearches :
          ~Found(Search(Compiled, self.negativeSearches[k], line))

\* the counter that a comment line of the measure block is counted in
CommentCounter(line) ==
    IF self.matchTemplateLines /\ RulesMatch(line) THEN "TemplateLines"
    ELSE IF opt.inclDeadCode /\ Found(Search(Compiled, "reDeadCode", line)) THEN "DeadCode"
    ELSE "CommentLines"

\* C18: a comment line measured in the measure block raises exactly one of the
\* counters TemplateLines, DeadCode and CommentLines by one: TemplateLines if
\* the instance matches template lines and the search rules match the line,
\* otherwise DeadCode if dead code is looked for and the dead code pattern is
\* found in the line, otherwise CommentLines; it is not counted as code.
C18_OneCommentCounter ==
    [][ (MeasuredInside /\ last'.onCommentLine) =>
            /\ \A n \in {"TemplateLines", "DeadCode", "CommentLines"} :
                  Raised(n, opt.measureBlock, IF n = CommentCounter(last'.line) THEN 1 ELSE 0)
            /\ Raised("MeasureLines", opt.measureBlock, 0)
            /\ Raised("AsmComments", opt.measureBlock, 0) ]_vars

\* under tempmeasure, a comment line that the rules match was counted as a
\* template line and one that a negative search excludes was not
C18_Witness ==
    /\ PassedLine /\ configEntry.verb = "tempmeasure" /\ last.onCommentLine
    /\ last.block = opt.measureBlock
    /\ self.counts["TemplateLines"][opt.measureBlock] = 1
    /\ self.counts["TotalLines"][opt.measureBlock] = 2
    /\ Found(Search(Compiled, "NEGATIVE__x", last.line))
    /\ last.log \in {"C", "D"}

\* the analysis rows of the survey that hold the key
RowsWith(key) == { k \in DOMAIN analysis : key \in DOMAIN analysis[k] }

\* C19: what a survey does depends on its own verb only: its analysis holds
\* routine rows only under the verb routines and search rows only under the
\* verb search, and it counts template lines only under the verb tempmeasure,
\* whatever surveys the instance ran before.
C19_VerbsExclusive ==
    /\ RowsWith("routine.name") # {} => configEntry.verb = "routines"
    /\ RowsWith("search.line") # {} => configEntry.verb = "search"
    /\ (\E b \in Blocks(opt) : self.counts["TemplateLines"][b] > 0) =>
           configEntry.verb = "tempmeasure"

\* the part of it that the code keeps: the rows follow the verb of the survey
RowsFollowVerb ==
    /\ RowsWith("routine.name") # {} => configEntry.verb = "routines"
    /\ RowsWith("search.line") # {} => configEntry.verb = "search"

\* the line without its white space
RECURSIVE Squeezed(_)
Squeezed(line) ==
    IF line = "" THEN ""
    ELSE IF CharAt(line, 1) \in SpaceChars THEN Squeezed(SubSeq(line, 2, Len(line)))
    ELSE CharAt(line, 1) \o Squeezed(SubSeq(line, 2, Len(line)))

\* the code lines of a file of the pairs, which holds no inline comment: its
\* lines that are not blank and do not start a comment, without their white space
RECURSIVE CodeOf(_)
CodeOf(file) ==
    IF file = <<>> THEN <<>>
    ELSE IF Squeezed(Head(file)) = "" \/ SubSeq(Squeezed(Head(file)), 1, 2) \in {"//", "/*"}
    THEN CodeOf(Tail(file))
    ELSE <<Squeezed(Head(file))>> \o CodeOf(Tail(file))

\* nbnc.crc of the measures of a file
CrcOf(measures) ==
    IF "nbnc.crc" \in DOMAIN measures THEN measures["nbnc.crc"] ELSE NoChecksum

\* both files of the pair are surveyed
BothSurveyed == pc = "idle" /\ Len(history) >= 2

\* C20: two files whose code lines are the same when the white space in the
\* lines is ignored, and which differ in comment lines and blank lines, have
\* the same nbnc.crc.
C20_SameCodeSameCrc ==
    (BothSurveyed /\ CodeOf(feed.file) = CodeOf(feed.next)) =>
        CrcOf(history[1]) = CrcOf(history[2])

\* the part of it that the code keeps: comment lines and blank lines are not
\* in nbnc.crc
CommentsNotInCrc ==
    (BothSurveyed
     /\ SelectSeq(feed.next, LAMBDA l : Squeezed(l) # "" /\ SubSeq(Squeezed(l), 1, 2) # "//")
            = feed.file) =>
        CrcOf(history[1]) = CrcOf(history[2])

\* the routine records among the analysis rows
RoutineRecords == { k \in DOMAIN analysis : "routine.nbnc" \in DOMAIN analysis[k] }

\* the survey under way, or the one just finished, has the verb routines
RoutineSurvey == configEntry.verb = "routines" /\ (pc = "lines" \/ Finished)

\* routineNbnc and routineComments as _save_routine_info would compute them
\* for a block
RoutineNbnc(b) == self.counts["MeasureLines"][b] - self.totalNbncAtLastRoutine[b]

RoutineComments(b) == self.counts["CommentLines"][b] - self.totalCommentsAtLastRoutine[b]

\* C21: in a routines survey the routine NBNC length and the routine comment
\* count that a save would compute are never negative, for any block, so that
\* neither assertion of _save_routine_info fails, and no record holds a
\* negative one; a routine record with NBNC length <= 1 is among the rows only
\* when ROUTINE_OUTPUT_SINGLE or MEASURE_EMPTIES is set.
C21_RoutineLength ==
    RoutineSurvey =>
        /\ \A b \in Blocks(opt) : RoutineNbnc(b) >= 0 /\ RoutineComments(b) >= 0
        /\ \A k \in RoutineRecords :
              /\ analysis[k]["routine.nbnc"] >= 0
              /\ "routine.comments" \in DOMAIN analysis[k] => analysis[k]["routine.comments"] >= 0
              /\ analysis[k]["routine.nbnc"] <= 1 =>
                    opt.routineOutputSingle \/ opt.writeEmptyMeasures

\* a routines survey ended with a routine started on the last measured line:
\* its length is at most 1, neither flag is set and it has no record, while an
\* earlier routine has one
C21_Witness ==
    /\ Finished /\ configEntry.verb = "routines"
    /\ ~opt.routineOutputSingle /\ ~opt.writeEmptyMeasures
    /\ self.foundFirstRoutineSinceTransition
    /\ self.currentRoutine.LineNum > 0
    /\ RoutineNbnc(opt.measureBlock) <= 1
    /\ RoutineRecords # {}
    /\ \A k \in RoutineRecords : analysis[k]["routine.lineNum"] # self.currentRoutine.LineNum

\* a routine whose start was found is the current routine of a routines survey
InFlight == pc = "lines" /\ self.measuringRoutines /\ self.foundFirstRoutineSinceTransition

\* what tells one routine of a survey from another: where it starts and what
\* started it
RoutineId(r) == <<r.LineNum, r.LineCol, r.RegEx>>

\* a step in which the routine in flight stops being the current routine:
\* another routine starts, the block changes, or the file ends
RoutineEnds ==
    /\ InFlight
    /\ \/ pc' = "idle"
       \/ RoutineId(self'.currentRoutine) # RoutineId(self.currentRoutine)
       \/ ~self'.foundFirstRoutineSinceTransition

\* the rows a step appends
NewRows == SubSeq(analysis', Len(analysis) + 1, Len(analysis'))

\* the records among rows of the routine that starts on line n
RecordsOf(rows, n) ==
    { k \in DOMAIN rows : "routine.lineNum" \in DOMAIN rows[k] /\ rows[k]["routine.lineNum"] = n }

\* routineNbnc of the routine in flight when the step saves it: the measured
\* lines of its block after the step, minus those at the last save
LengthAtSave ==
    self'.counts["MeasureLines"][self.activeBlock]
    - self.totalNbncAtLastRoutine[self.activeBlock]

\* the step that ends a routine saves it once: its record is appended, and is
\* its only record, when its length passes the test of C21
FinalizedOnce ==
    RoutineEnds =>
        IF LengthAtSave > 1 \/ opt.routineOutputSingle \/ opt.writeEmptyMeasures
        THEN /\ Cardinality(RecordsOf(NewRows, self.currentRoutine.LineNum)) = 1
             /\ Cardinality(RecordsOf(analysis', self.currentRoutine.LineNum)) = 1
        ELSE RecordsOf(analysis', self.currentRoutine.LineNum) = {}

\* the record of a routine that starts on a line is appended by no other step
OnlyWhenEnded ==
    (pc = "lines" /\ \E k \in DOMAIN NewRows :
        "routine.lineNum" \in DOMAIN NewRows[k] /\ NewRows[k]["routine.lineNum"] > 0)
    => RoutineEnds

\* the records of the routines that start on a line are in the order of their
\* start lines
InStartOrder ==
    \A j, k \in RoutineRecords :
        (j < k /\ analysis[j]["routine.lineNum"] > 0 /\ analysis[k]["routine.lineNum"] > 0)
        => analysis[j]["routine.lineNum"] < analysis[k]["routine.lineNum"]

\* C22: a routine whose start was found in a routines survey is saved exactly
\* once, by the step in which the next routine starts, the active block changes
\* (spanning disabled) or the file ends, where the routine in flight is saved,
\* and by no other step; the records are appended in the order of the start
\* lines.
C22_Lifecycle ==
    /\ [][FinalizedOnce /\ OnlyWhenEnded]_vars
    /\ [](RoutineSurvey => InStartOrder)

\* a routines survey ended with three records: two of routines that a later
\* start ended, and one of the routine in flight at the end of the file
C22_Witness ==
    /\ Finished /\ configEntry.verb = "routines"
    /\ Cardinality({ k \in RoutineRecords : analysis[k]["routine.lineNum"] > 0 }) >= 2
    /\ self.foundFirstRoutineSinceTransition
    /\ RecordsOf(analysis, self.currentRoutine.LineNum) # {}

\* the file of the survey that ended last
SurveyedFile == IF surveys = 1 THEN feed.file ELSE feed.next

\* the line is not blank, starts no comment and matches the routine-start
\* rules of the survey (no file here holds a comment of several lines)
StartLine(line) ==
    /\ Squeezed(line) # ""
    /\ ~(Len(Squeezed(line)) >= 2 /\ SubSeq(Squeezed(line), 1, 2) \in {"//", "/*"})
    /\ DetectRoutineStart(Compiled, self, line) # NoStart

\* the runs of consecutive lines of the file that each match the rules: the
\* lines that match them and follow no line that does
StartRuns(file) ==
    { k \in DOMAIN file : StartLine(file[k]) /\ (k > 1 => ~StartLine(file[k - 1])) }

\* a routines survey that has ended, its routine rows being written, without
\* ROUTINE_SINGLE_LINE
CoalescingSurveyEnded ==
    /\ Finished /\ configEntry.verb = "routines" /\ WriteOutput(opt, configEntry, analysis)
    /\ ~opt.routineSingleLine

\* C23: unless ROUTINE_SINGLE_LINE is set, a run of N consecutive lines that each
\* match the routine-start rules starts one routine, so a survey starts as many
\* routines by rule as its file has runs; and the file of two signature lines
\* yields exactly one routine record, which starts on line 1 and spans both
\* lines.
C23_OneRoutinePerRun ==
    CoalescingSurveyEnded =>
        /\ Sum(self.counts["Routines"]) = Cardinality(StartRuns(SurveyedFile))
        /\ (SurveyedFile = TwoStarts /\ configEntry.paramsProcessed = <<>>) =>
              /\ Cardinality(RoutineRecords) = 1 + (IF opt.writeEmptyMeasures THEN 1 ELSE 0)
              /\ \E k \in RoutineRecords :
                    /\ analysis[k]["routine.lineNum"] = 1
                    /\ analysis[k]["routine.nbnc"] = 2

\* a pass of the loop hands a line of the measure block that is no comment line
\* to _routine_analyze_impl
RoutineAnalyzed ==
    /\ pc = "lines" /\ lines # <<>>
    /\ configEntry.verb = "routines"
    /\ last'.log \in {"", "I"}

\* the current routine when the line is analyzed: a block change on the line
\* has reset it unless routines span blocks
ActiveRoutine ==
    IF last'.events # <<>> /\ ~opt.routineSpanBlocks THEN NoRoutine ELSE self.currentRoutine

\* the column of the first character of the line that is no white space
Column(line) == IndentDepth(ExpandTabs(line, opt.routineAvgIndent))

\* the line matches no routine-start rule
NoRuleStart(line) == DetectRoutineStart(Compiled, self, line) = NoStart

\* the line that the pass analyzes becomes the start of a routine that no rule
\* started
ImplicitStart ==
    /\ self.currentRoutine.LineNum # LinesRead
    /\ self'.currentRoutine.LineNum = LinesRead
    /\ self'.currentRoutine.RegEx = NoRoutine.RegEx

\* the column is at most the threshold and at most the start column of the
\* current routine
WithinColumns(line) ==
    /\ Column(line) <= opt.routineIgnoreCol
    /\ Column(line) <= ActiveRoutine.LineCol

\* C24 as stated: a line of a routines survey that matches no routine-start rule
\* starts an implicit routine exactly when its column is at most the threshold
\* and at most the start column of the current routine.
C24_IndentStartAsStated ==
    [][ (RoutineAnalyzed /\ NoRuleStart(Head(lines))) =>
            (ImplicitStart <=> WithinColumns(Head(lines))) ]_vars

\* C24: a line of a routines survey that matches no routine-start rule starts an
\* implicit routine exactly when it is indented (column > 0), its column is at
\* most the threshold and at most the start column of the current routine, and,
\* unless ROUTINE_SINGLE_LINE is set, the line analyzed before it started no
\* routine and was not joined to one.
C24_IndentStart ==
    [][ (RoutineAnalyzed /\ NoRuleStart(Head(lines))) =>
            (ImplicitStart <=>
                /\ Column(Head(lines)) > 0
                /\ WithinColumns(Head(lines))
                /\ (opt.routineSingleLine \/ ~self.routinePrevLineStart)) ]_vars

\* a survey ended after the line '  bar' at column 2 started an implicit routine
\* under the routine that starts at column 2, which has a record
C24_Witness ==
    /\ Finished /\ configEntry.verb = "routines"
    /\ \E k \in RoutineRecords :
          /\ analysis[k]["routine.lineCol"] = 2
          /\ analysis[k]["routine.regex"] = NoRoutine.RegEx[1]
          /\ analysis[k]["routine.lineNum"] > 1

\* a pass of the loop of a routines survey, routines not spanning blocks, in
\* which the active block changes from the measure block
LeavesMeasureBlock ==
    /\ pc = "lines" /\ lines # <<>>
    /\ configEntry.verb = "routines" /\ ~opt.routineSpanBlocks
    /\ \E k \in DOMAIN last'.events : last'.events[k].old = opt.measureBlock

\* the lines and comment lines that the old block had counted before the change
\* are behind the marks from which the next routine record counts
CountedBeforeChange ==
    /\ self'.totalNbncAtLastRoutine[opt.measureBlock]
           >= self.counts["MeasureLines"][opt.measureBlock]
    /\ self'.totalCommentsAtLastRoutine[opt.measureBlock]
           >= self.counts["CommentLines"][opt.measureBlock]

\* C25: with routines not spanning blocks, a change of the active block in a
\* routines survey saves the routine in flight with the counters of the old
\* block and resets the routine counters, so that no line counted before the
\* change is counted in a routine record written after it.
C25_NoLineAcrossBlocks ==
    [][ LeavesMeasureBlock =>
            /\ self'.currentRoutine = NoRoutine \/ self'.currentRoutine.LineNum = LinesRead
            /\ CountedBeforeChange ]_vars

\* the rows of a step that hold computed metrics
MetricRows == { k \in DOMAIN NewRows : "routine.c-escapes" \in DOMAIN NewRows[k] }

\* the routine that the k-th new row is the record of: the current routine, or
\* the reset one when the step has saved the current routine before
SavedRoutine(k) == IF \A j \in MetricRows : k <= j THEN self.currentRoutine ELSE NoRoutine

\* the escape lines counted, taken as at least one
FlooredEscapes(r) == IF r.Escapes > 1 THEN r.Escapes ELSE 1

\* C26: a routine record with computed metrics holds routine.c-escapes =
\* max(1, escape lines counted) and routine.complexity = decisions + cases
\* unless COMP_EXCL_CASES + the floored escapes unless COMP_EXCL_ESCAPES +
\* booleans if COMP_INCL_BOOLEAN, each of the three options on its own.
C26_Complexity ==
    [][ \A k \in MetricRows :
            /\ NewRows[k]["routine.c-escapes"] = FlooredEscapes(SavedRoutine(k))
            /\ NewRows[k]["routine.c-decisions"] = SavedRoutine(k).Decisions
            /\ NewRows[k]["routine.c-cases"] = SavedRoutine(k).Cases
            /\ NewRows[k]["routine.c-booleans"] = SavedRoutine(k).Booleans
            /\ NewRows[k]["routine.complexity"] =
                   SavedRoutine(k).Decisions
                   + (IF opt.complexityInclCases THEN SavedRoutine(k).Cases ELSE 0)
                   + (IF opt.complexityInclEscapes THEN FlooredEscapes(SavedRoutine(k)) ELSE 0)
                   + (IF opt.complexityInclBooleans THEN SavedRoutine(k).Booleans ELSE 0) ]_vars

\* a survey with COMP_EXCL_ESCAPES alone ended with the record of a routine of
\* one decision, one case, one boolean operator and three escape lines, whose
\* complexity is 2
C26_Witness ==
    /\ Finished /\ configEntry.verb = "routines"
    /\ opt.complexityInclCases /\ ~opt.complexityInclEscapes /\ ~opt.complexityInclBooleans
    /\ \E k \in RoutineRecords :
          /\ "routine.c-escapes" \in DOMAIN analysis[k]
          /\ analysis[k]["routine.c-escapes"] = 3
          /\ analysis[k]["routine.c-decisions"] = 1
          /\ analysis[k]["routine.c-cases"] = 1
          /\ analysis[k]["routine.c-booleans"] = 1
          /\ analysis[k]["routine.complexity"] = 2

\* the pass makes the line it analyzes the start of a routine
StartsRoutine ==
    /\ self'.foundFirstRoutineSinceTransition
    /\ self.currentRoutine.LineNum # LinesRead
    /\ self'.currentRoutine.LineNum = LinesRead

\* the routine that the line is counted to, as it was before the line: the
\* one that starts on the line has counted nothing yet
CountedTo == IF StartsRoutine THEN NoRoutine ELSE ActiveRoutine

\* floor(indentColumns / averageIndentWidth) of the line, minus the nesting of
\* the start line of the routine that the line is counted to
NestingDelta(line) == (Column(line) \div opt.routineAvgIndent) - self'.currentRoutine.LineIndent

\* the line is counted to its routine as a decision line
DecisionCounted == self'.currentRoutine.Decisions = CountedTo.Decisions + 1

\* the deepest nesting of the routine after the line, by the rule of C27
DeepestAfter(line) ==
    IF DecisionCounted /\ NestingDelta(line) > CountedTo.MaxIndent
    THEN NestingDelta(line) ELSE CountedTo.MaxIndent

\* every line analyzed keeps the deepest nesting of its routine by the rule
NestingTracked == RoutineAnalyzed => self'.currentRoutine.MaxIndent = DeepestAfter(Head(lines))

\* a record holds the deepest nesting of the routine it is the record of
NestingRecorded ==
    \A k \in MetricRows : NewRows[k]["routine.maxNesting"] = SavedRoutine(k).MaxIndent

\* C27: routine.maxNesting of a routine record is the maximum, over the decision
\* lines counted to the routine, of floor(indentColumns / averageIndentWidth)
\* minus the nesting of the routine's own start line, and 0 if no decision line
\* is deeper than the start line.
C27_MaxNesting == [][ NestingTracked /\ NestingRecorded ]_vars

\* the rule holds for every line but the one that starts a routine
NestingAfterStart == [][ (~StartsRoutine => NestingTracked) /\ NestingRecorded ]_vars

\* the lines that the searches are applied to
SearchLines == UNION { Range(f) : f \in SearchFiles }

\* the positive searches of the instance that the line holds, by their place in
\* the order of the parameter lines
PositiveHits(line) ==
    { k \in DOMAIN self.positiveSearches :
        Found(Search(Compiled, self.positiveSearches[k], line)) }

\* a negative search of the instance that the line holds
NegativeHit(line) ==
    \E k \in DOMAIN self.negativeSearches :
        Found(Search(Compiled, self.negativeSearches[k], line))

\* _first_match of the line with the searches of the instance
FirstMatchOf(line, negativeFirst) ==
    FirstMatch(Compiled, line, self.positiveSearches, self.negativeSearches, negativeFirst)

\* C28: for every line and the rule set of the instance, _first_match returns a
\* match iff at least one positive rule matches and no negative rule matches,
\* the match returned is that of the first matching positive rule in the order
\* of declaration, and the result is the same in the default mode and in the
\* negativeFirst mode.
C28_FirstMatch ==
    \A line \in SearchLines :
        /\ FirstMatchOf(line, FALSE) = FirstMatchOf(line, TRUE)
        /\ FirstMatchOf(line, FALSE) # "None" <=> (PositiveHits(line) # {} /\ ~NegativeHit(line))
        /\ FirstMatchOf(line, FALSE) # "None" =>
              \E k \in PositiveHits(line) :
                  /\ \A j \in PositiveHits(line) : k <= j
                  /\ FirstMatchOf(line, FALSE) = self.positiveSearches[k]

\* a search with the parameter lines foo and NEGATIVE__foobar ended with one
\* row, for 'this has foo in it' and the search foo, and none for 'this has
\* foobar in it'
C28_Witness ==
    /\ Finished /\ configEntry = ConfigEntry("search", ExampleParams)
    /\ Len(analysis) = 1
    /\ analysis[1]["search.line"] = "this has foo in it"
    /\ analysis[1]["search.linenum"] = 2
    /\ analysis[1]["search.regex"] = "foo"

(***************************************************************************)
(* C29: an exception raised while a line is processed                      *)
(***************************************************************************)
\* the last step raised an exception in the try block of _survey_lines
LineFailure == pc = "lines" /\ last'.log = "E" /\ last' # last

\* the loop goes on with the buffer line after the one that failed, and
\* nothing is reported to the worker
ResumesWithNextLine ==
    /\ pc' = "lines"
    /\ lines' = <<>>
    /\ LinesRead' = (IF lines = <<>> THEN LinesRead + 1 ELSE LinesRead)
    /\ surveys' = surveys
    /\ measurements' = measurements
    /\ history' = history
    /\ worker' = worker

\* the entry the worker completed last
LastEntry(w) == w.currentOutput[Len(w.currentOutput)]

\* the survey is over, nothing is delivered for it and the worker holds a
\* FileMeasureError for the file
AbortedWithError ==
    /\ pc' = "idle"
    /\ surveys' = surveys + 1
    /\ measurements' = NoMeasures
    /\ analysis' = <<>>
    /\ history' = history
    /\ worker'.currentOutput # <<>>
    /\ LastEntry(worker') = [file |-> surveys + 1, output |-> 0,
                             errors |-> <<"FileMeasureError">>]

\* a survey that no exception leaves ends with its measures handed to the worker
EndsPackaged ==
    pc = "lines" /\ pc' = "idle" /\ ~opt.stopOnError /\ last'.log # "R"
        => /\ measurements' # NoMeasures
           /\ history' = Append(history, measurements')
           /\ worker'.currentOutput # <<>>
           /\ LastEntry(worker') = [file |-> surveys + 1, output |-> 1, errors |-> <<>>]

\* C29: an exception raised while a line is processed is caught at that line:
\* with CONTINUE_ON_ERROR the survey goes on with the next line of the file and
\* its measures are still packaged when it ends; without it the survey is over,
\* a FileMeasureError reaches the caller and neither measures nor rows are
\* delivered for it
C29_LineFailure ==
    [][ /\ LineFailure => IF opt.stopOnError THEN AbortedWithError
                          ELSE ResumesWithNextLine
        /\ EndsPackaged ]_vars

\* a survey with CONTINUE_ON_ERROR whose last line failed has delivered its measures
C29_Witness ==
    /\ Finished
    /\ ~opt.stopOnError
    /\ last.log = "E"
    /\ measurements # NoMeasures
    /\ worker.currentOutput # <<>>
    /\ LastEntry(worker).output = 1

(***************************************************************************)
(* C30: a file that cannot be measured                                     *)
(***************************************************************************)
\* measuring the file of the package failed in the last step
FileFailure == worker'.raised # worker.raised

\* the error is in the error list of that file, in the output of the package
ErrorRecorded ==
    /\ worker'.currentOutput # <<>>
    /\ LastEntry(worker').file = surveys + 1
    /\ LastEntry(worker').output = 0
    /\ LastEntry(worker').errors # <<>>
    /\ SubSeq(worker'.currentOutput, 1, Len(worker.currentOutput)) = worker.currentOutput

\* the worker goes on to the next file unless breakOnError is set
GoesOn ==
    /\ ~worker'.continueProcessing => worker.breakOnError
    /\ ~worker.breakOnError => pc' = "idle" /\ worker'.continueProcessing /\ ~worker'.posted

\* the output of the package, the entries of its failed files included, is put
\* on the output queue, or a JobException says that it could not be
PackagePosted ==
    ~worker.posted /\ worker'.posted
        => \/ worker'.outputQueue = <<worker.currentOutput>>
           \/ worker'.exception = "JobException"

\* no file is measured once processing has stopped
NoFileAfterStop == pc = "idle" /\ ~worker.continueProcessing => pc' = "idle"

\* the entries of the package, posted or not
PackageEntries ==
    Range(worker.currentOutput)
        \cup UNION { Range(worker.outputQueue[k]) : k \in 1..Len(worker.outputQueue) }

\* every file that failed has its errors in the package, or the package was
\* lost to a JobException
ErrorsKept ==
    \A f \in worker.raised :
        \/ \E e \in PackageEntries : e.file = f /\ e.errors # <<>>
        \/ worker.exception = "JobException"

\* C30: when measuring a file fails the error is recorded in the error list of
\* that file and delivered with the output of the work package, and the worker
\* goes on to the next file of the package; processing stops only when
\* breakOnError is set, and the error is never dropped silently
C30_FileErrors ==
    /\ [][ /\ FileFailure => ErrorRecorded /\ GoesOn
           /\ PackagePosted
           /\ NoFileAfterStop ]_vars
    /\ []ErrorsKept

\* a package was posted in which the first file failed and the second file,
\* measured after it, has its output
C30_Witness ==
    /\ worker.posted
    /\ ~worker.breakOnError
    /\ Len(worker.outputQueue) = 1
    /\ Len(worker.outputQueue[1]) >= 2
    /\ worker.outputQueue[1][1].errors # <<>>
    /\ worker.outputQueue[1][2].file = 2
    /\ worker.outputQueue[1][2].output = 1
    /\ 1 \in worker.raised

(***************************************************************************)
(* C31: configuration errors                                               *)
(***************************************************************************)
\* the option names no option of the csmodule, or its value is no integer
\* where one is needed or no pattern that compiles
BadOption(option) ==
    \/ option[1] \notin ConfigOptionDict
    \/ option[1] \in {"MAX_LINE_LENGTH", "ROUTINE_NESTING_INDENT", "ROUTINE_IGNORE_COLUMN"}
           /\ ~IsInt(option[2])
    \/ option[1] = "SKIP_LINES" /\ ReCompile(option[2]) = "error"

\* applying a bad option ends the construction with a CsModuleException
RaisedAtConstruction ==
    pc = "config" /\ config.options # <<>> /\ BadOption(Head(config.options))
        => pc' = "failed" /\ config'.exception = "CsModuleException"

\* a construction that failed surveys no file
FailedClosed == pc = "failed" => pc' = "failed" /\ surveys' = 0

\* the part of C31 that holds: an unknown option and an option whose
\* application fails raise CsModuleException in the constructor, and no file
\* is surveyed after it
C31_RaisedInConstructor == [][RaisedAtConstruction /\ FailedClosed]_vars

\* an exception was raised while a line of a file was processed
FailedMeasuring == last.log = "E" \/ worker.raised # {}

\* C31: configuration errors fail closed: an unknown option or an option whose
\* application fails raises CsModuleException while the csmodule is
\* constructed, before any file is surveyed, and no configuration error is
\* left to be raised while files are measured
C31_FailClosed ==
    /\ pc = "failed" => config.exception = "CsModuleException" /\ surveys = 0
    /\ pc \notin {"config", "failed"} => ~FailedMeasuring

(***************************************************************************)
(* C32: ranking labels                                                     *)
(***************************************************************************)
\* match_ranking_label has returned the label of a number
Ranked == call.function = "match_ranking_label" /\ call.returned /\ ~call.value.empty

\* the bound is at least the value
BoundCovers(bound, value) ==
    \/ value.num \div value.den < bound
    \/ value.num \div value.den = bound /\ value.num % value.den = 0

\* the pairs of the table whose bound is at least the value
CoveringPairs(rankingMap, value) ==
    { k \in 1..Len(rankingMap) : BoundCovers(rankingMap[k][1], value) }

\* C32: match_ranking_label returns the label of the first pair of the table
\* whose bound is at least the value, and every number up to the maximum gets
\* a label that is not empty, the last bound of every table being the maximum
C32_RankingLabel ==
    /\ \A m \in RankingMaps : m[Len(m)][1] = MAX_RANK
    /\ Ranked =>
         /\ CoveringPairs(call.rankingMap, call.value) # {}
         /\ \A k \in CoveringPairs(call.rankingMap, call.value) :
              (\A j \in CoveringPairs(call.rankingMap, call.value) : k <= j)
                  => call.label = call.rankingMap[k][2]
         /\ call.label # ""

\* the value is a bound in the middle of the table, and the label is that of its pair
C32_Witness ==
    /\ Ranked
    /\ call.rankingMap = MaxNestingRanks
    /\ call.value = Whole(5)
    /\ call.label = "3 to 4"

(***************************************************************************)
(* C33: the length reported for a routine                                  *)
(***************************************************************************)
\* the line is measured as code: it is not blank and starts no comment (no
\* file here holds a comment of several lines)
MeasuredLine(line) ==
    /\ Squeezed(line) # ""
    /\ ~(Len(Squeezed(line)) >= 2 /\ SubSeq(Squeezed(line), 1, 2) \in {"//", "/*"})

\* the measured lines among lines n to m of the file
MeasuredBetween(file, n, m) ==
    Cardinality({ i \in n..m : i \in DOMAIN file /\ MeasuredLine(file[i]) })

\* every line so far, the line of the step included, is in the measured block
SingleBlock ==
    \A b \in Blocks(opt) : b # opt.measureBlock => self'.counts["TotalLines"][b] = 0

\* the last line before the one that ends the routine in flight: the line
\* before the line of the step, or the last line of the file
LineBeforeEnd == IF pc' = "idle" THEN Len(File) ELSE LinesRead - 1

\* C33: the routine.nbnc of a routine is the number of measured lines from its
\* own start line up to, but not including, the start of the next routine or
\* the end of the file that finalizes it, so that measured lines before the
\* first routine are attributed to no routine (checked where no line of the
\* file changes the block)
C33_RoutineNbnc ==
    [][ RoutineEnds /\ SingleBlock
          => \A k \in RecordsOf(NewRows, self.currentRoutine.LineNum) :
                NewRows[k]["routine.nbnc"]
                    = MeasuredBetween(File, self.currentRoutine.LineNum, LineBeforeEnd) ]_vars

(***************************************************************************)
(* The job: main thread, worker processes and output thread                *)
(***************************************************************************)
\* the worker processes the job creates (options.numWorkers)
NumWorkers == 2

\* the files the folder walk hands to add_folder_files
MaxFiles == 3

WORKER_EXIT_TRIES == 8

WorkerIds == 1 .. NumWorkers

FileIds == 1 .. MaxFiles

\* Worker.__init__: Process.__init__(self, name=jobName + str(num))
WorkerName(num) == "Job" \o ToString(num)

\* a (target, command, payload) entry of the control queue
Command(target, command) == [target |-> target, command |-> command]

\* jobworker.Worker.__init__, before the process is started; unposted is the
\* number of work packages taken less the number of output lists put, and
\* exception the exception that ended _run
NewProcess ==
    [pc |-> "unstarted", continueProcessing |-> TRUE, items |-> <<>>,
     currentOutput |-> <<>>, unposted |-> 0, exception |-> "None"]

\* jobout.OutThread.__init__; stopped keeps why _run ended
NewOutThread ==
    [pc |-> "run", continueProcessing |-> TRUE, workDone |-> FALSE,
     taskPackagesReceived |-> 0, filesOutput |-> <<>>, stopped |-> "None"]

\* Job.__init__ with options.breakOnError; the last fields keep what happened
\* so far: the commands put on the control queue and neither consumed by a
\* check nor left at _close_queues, whether a check put any command back or
\* gave one to another target than its own; for each file the task packages it
\* was sent in, the times it was measured, the output lists put on the output
\* queue with it and the calls of the application's callback; and whether an
\* error or an exception occurred
NewJob(breakOnError) ==
    [main |-> "fill", continueProcessing |-> TRUE,
     breakOnError |-> breakOnError, exceptions |-> 0,
     taskQueue |-> <<>>, outQueue |-> <<>>, controlQueue |-> <<>>,
     workPackage |-> <<>>, files |-> 0,
     taskPackagesSent |-> 0, started |-> 0, joining |-> 1, tries |-> 0,
     worker |-> [num \in WorkerIds |-> NewProcess], out |-> NewOutThread,
     commands |-> 0, replaced |-> FALSE, misdelivered |-> FALSE,
     packaged |-> [file \in FileIds |-> 0],
     measured |-> [file \in FileIds |-> 0],
     output |-> [file \in FileIds |-> 0],
     called |-> [file \in FileIds |-> 0],
     failed |-> FALSE]

\* the place of the first command for name in the queue, 0 when there is none
RECURSIVE OwnCommand(_, _, _)
OwnCommand(queue, name, k) ==
    IF k > Len(queue) THEN 0
    ELSE IF queue[k].target = name THEN k
    ELSE OwnCommand(queue, name, k + 1)

\* a variant of the gets below that takes the first command of the queue for
\* its own (the variant C36 is checked against)
GetsFirstCommand(queue, name) ==
    IF queue = <<>>
    THEN [myCommand |-> "None", target |-> name, otherCommands |-> <<>>, controlQueue |-> <<>>]
    ELSE [myCommand |-> Head(queue).command, target |-> Head(queue).target,
          otherCommands |-> <<>>, controlQueue |-> Tail(queue)]

\* Worker._check_for_stop and OutThread._continue_processing, the try block:
\* get_nowait until the own command is found or the queue is empty
GetCommands(queue, name) ==
    LET k == OwnCommand(queue, name, 1)
    IN  IF k = 0
        THEN [myCommand |-> "None", target |-> name, otherCommands |-> queue,
              controlQueue |-> <<>>]
        ELSE [myCommand |-> queue[k].command,
              target |-> queue[k].target,
              otherCommands |-> SubSeq(queue, 1, k - 1),
              controlQueue |-> SubSeq(queue, k + 1, Len(queue))]

\* utils.put_commands, which src/framework/utils.py does not define: the
\* commands are put back as OutThread._continue_processing puts them back
put_commands(controlQueue, otherCommands) == controlQueue \o otherCommands

\* the control queue and the counts after a check of name got its commands
\* and put the others back
Checked(j, got, name) ==
    [j EXCEPT !.controlQueue = put_commands(got.controlQueue, got.otherCommands),
              !.replaced = @ \/ got.otherCommands # <<>>,
              !.commands = IF got.myCommand = "None" THEN @ ELSE @ - 1,
              !.misdelivered = @ \/ (got.myCommand # "None" /\ got.target # name)]

\* Worker._check_for_stop
CheckForStop(j, num) ==
    LET got == GetCommands(j.controlQueue, WorkerName(num))
    IN  [Checked(j, got, WorkerName(num)) EXCEPT
             !.worker[num].continueProcessing = IF got.myCommand = "EXIT" THEN FALSE ELSE @]

\* OutThread._continue_processing
ContinueProcessing(j) ==
    LET got == GetCommands(j.controlQueue, "Out")
    IN  [Checked(j, got, "Out") EXCEPT
             !.out.continueProcessing = IF got.myCommand = "EXIT" THEN FALSE ELSE @,
             !.out.workDone = IF got.myCommand = "WORK_DONE" THEN TRUE ELSE @]

\* Job._check_command, the try block: while continueProcessing, get_nowait;
\* the commands for JOB are handled, the others are kept to be put back
RECURSIVE CheckCommandGets(_, _, _)
CheckCommandGets(j, queue, otherCommands) ==
    IF ~j.continueProcessing \/ queue = <<>>
    THEN [j EXCEPT !.controlQueue = queue \o otherCommands,
                   !.replaced = @ \/ otherCommands # <<>>]
    ELSE LET c == Head(queue)
         IN  IF c.target = "JOB"
             THEN CheckCommandGets(
                      [j EXCEPT !.continueProcessing = IF j.breakOnError THEN FALSE ELSE @,
                                !.exceptions = IF c.command = "EXCEPTION" THEN @ + 1 ELSE @,
                                !.commands = @ - 1],
                      Tail(queue), otherCommands)
             ELSE CheckCommandGets(j, Tail(queue), Append(otherCommands, c))

\* Job._check_command: the finally block puts back the commands removed
CheckCommand(j) == CheckCommandGets(j, j.controlQueue, <<>>)

\* Job._send_command
SendCommand(j, target, command) ==
    [j EXCEPT !.controlQueue = Append(@, Command(target, command)), !.commands = @ + 1]

\* Process.is_alive and Thread.is_alive
WorkerAlive(j, num) == j.worker[num].pc \notin {"unstarted", "dead"}
OutAlive(j) == j.out.pc # "dead"

\* Job._send_workers_command: to the workers that are alive
RECURSIVE SendWorkersCommand(_, _, _)
SendWorkersCommand(j, command, num) ==
    IF num > NumWorkers THEN j
    ELSE SendWorkersCommand(
             IF WorkerAlive(j, num) THEN SendCommand(j, WorkerName(num), command) ELSE j,
             command, num + 1)

\* Job._task_queue_size before its assertion
RemainingPackages(j) == j.taskPackagesSent - j.out.taskPackagesReceived - j.exceptions

\* Workers.start_next: one more worker is started until all are started
StartNext(j) ==
    IF j.started < NumWorkers
    THEN [j EXCEPT !.started = @ + 1, !.worker[j.started + 1].pc = "get"]
    ELSE j

\* a variant of _send_current_package below that does not reset the work
\* package (the variant C38 is checked against)
SendKeepsPackage(j) ==
    LET s == StartNext(j)
    IN  [s EXCEPT !.taskQueue = Append(@, s.workPackage),
                  !.packaged = [file \in FileIds |->
                                   IF \E k \in 1 .. Len(s.workPackage) : s.workPackage[k] = file
                                   THEN @[file] + 1 ELSE @[file]],
                  !.taskPackagesSent = @ + 1]

\* Job._send_current_package
SendCurrentPackage(j) ==
    LET s == StartNext(j)
    IN  [s EXCEPT !.taskQueue = Append(@, s.workPackage),
                  !.packaged = [file \in FileIds |->
                                   IF \E k \in 1 .. Len(s.workPackage) : s.workPackage[k] = file
                                   THEN @[file] + 1 ELSE @[file]],
                  !.taskPackagesSent = @ + 1,
                  !.workPackage = <<>>]

\* a step of the job leaves the surveys and the function calls alone
JobStep(j) == job' = j /\ UNCHANGED <<surveyVars, call>>

\* Job._fill_work_queue and Job._put_files_in_queue for one file: after
\* _check_command the work item is added to the work package, which is sent
\* when ready_to_send or after MAX_FILES_BEFORE_SEND
PutFilesInQueue ==
    LET c == CheckCommand(job)
        j == [c EXCEPT !.files = @ + 1, !.workPackage = Append(@, c.files + 1)]
    IN  /\ job.main = "fill"
        /\ c.continueProcessing
        /\ job.files < MaxFiles
        /\ \E send \in BOOLEAN : JobStep(IF send THEN SendCurrentPackage(j) ELSE j)

\* Job._fill_work_queue after the walk, which ends after any number of files:
\* what is left of the work package is sent
FillWorkQueue ==
    LET c == CheckCommand(job)
        j == [c EXCEPT !.main = "wait_packages"]
    IN  /\ job.main = "fill"
        /\ JobStep(IF c.continueProcessing /\ c.workPackage # <<>>
                   THEN SendCurrentPackage(j) ELSE j)

\* Job._wait_process_packages, and the start of _wait_output_finish after it
WaitProcessPackages ==
    LET c == CheckCommand(job)
    IN  /\ job.main = "wait_packages"
        /\ JobStep(IF c.continueProcessing /\ RemainingPackages(c) < 0
                   THEN [c EXCEPT !.main = "asserted"]
                   ELSE IF c.continueProcessing /\ RemainingPackages(c) > 0
                   THEN c
                   ELSE [SendCommand(c, "Out", "WORK_DONE") EXCEPT !.main = "wait_output"])

\* Job._wait_output_finish, the loop: the output thread is joined with a
\* timeout, and the job goes on checking while the control queue is not empty
WaitOutputFinish ==
    LET c == CheckCommand(job)
    IN  /\ job.main = "wait_output"
        /\ JobStep(IF c.continueProcessing \/ OutAlive(c)
                   THEN [c EXCEPT !.continueProcessing = c.controlQueue # <<>>]
                   ELSE [c EXCEPT !.main = "exit"])

\* Job._wait_output_finish, the loop, when controlQueue.empty() is True although
\* commands were put: a multiprocessing.Queue hands a put to its feeder thread,
\* and empty() does not see the command before it is written to the pipe
WaitOutputInFlight ==
    LET c == CheckCommand(job)
    IN  /\ job.main = "wait_output"
        /\ c.continueProcessing \/ OutAlive(c)
        /\ c.controlQueue # <<>>
        /\ JobStep([c EXCEPT !.continueProcessing = FALSE])

\* Job._wait_then_exit: EXIT is sent to the workers alive and to the output thread
WaitThenExit ==
    /\ job.main = "exit"
    /\ JobStep([SendCommand(SendWorkersCommand(job, "EXIT", 1), "Out", "EXIT") EXCEPT
                    !.main = "join", !.joining = 1, !.tries = 0])

\* Job._wait_then_exit, the loop over the workers: worker.join with a timeout,
\* _check_command, and one more try
JoinWorker ==
    /\ job.main = "join"
    /\ JobStep(IF job.joining > NumWorkers
               THEN [job EXCEPT !.main = "close"]
               ELSE IF WorkerAlive(job, job.joining) /\ job.tries < WORKER_EXIT_TRIES
               THEN [CheckCommand(job) EXCEPT !.tries = @ + 1]
               ELSE [job EXCEPT !.joining = @ + 1, !.tries = 0])

\* Job._wait_then_exit, the end: _close_queues gets what is left in the queues
CloseQueues ==
    /\ job.main = "close"
    /\ JobStep([job EXCEPT !.main = "done", !.taskQueue = <<>>, !.outQueue = <<>>,
                           !.controlQueue = <<>>, !.commands = @ - Len(job.controlQueue)])

\* Worker._run, a pass of the loop that ends
EndOfPass(j, num) ==
    [j EXCEPT !.worker[num].pc = IF j.worker[num].continueProcessing THEN "get" ELSE "dead"]

\* Worker._run: get_nowait on the input queue; when it is empty the pass ends
\* with _check_for_stop
WorkerGet(num) ==
    /\ job.worker[num].pc = "get"
    /\ JobStep(IF job.taskQueue # <<>>
               THEN [job EXCEPT !.taskQueue = Tail(@),
                                !.worker[num].items = Head(job.taskQueue),
                                !.worker[num].unposted = @ + 1,
                                !.worker[num].pc = "measure"]
               ELSE EndOfPass(CheckForStop(job, num), num))

\* the worker after a work item: the next one, or _post_results
NextItem(j, num, stop) ==
    [j EXCEPT !.worker[num].items = Tail(@),
              !.worker[num].pc = IF stop \/ Len(j.worker[num].items) = 1 THEN "post" ELSE @]

\* Worker._measure_file returns: the output of the module, or the error of one
\* of the except clauses, which differ when options.breakOnError
MeasureResults(breakOnError) ==
    {"output", "Exception"} \union (IF breakOnError THEN {"FileMeasureError"} ELSE {})

\* Worker._measure_file for one work item: the file is not measured once
\* _check_for_stop returns False; else its output, or its errors, are cached
MeasureFile(num) ==
    LET c == CheckForStop(job, num)
        file == Head(job.worker[num].items)
    IN  /\ job.worker[num].pc = "measure"
        /\ IF ~c.worker[num].continueProcessing
           THEN JobStep(NextItem(c, num, FALSE))
           ELSE \E result \in MeasureResults(job.breakOnError) :
                   LET stop == result = "FileMeasureError" /\ job.breakOnError
                   IN  JobStep(NextItem(
                           [c EXCEPT !.worker[num].currentOutput =
                                         Append(@, [filePath |-> file,
                                                    errors |-> result # "output"]),
                                     !.worker[num].continueProcessing = IF stop THEN FALSE ELSE @,
                                     !.measured[file] = @ + 1,
                                     !.failed = @ \/ result # "output"],
                           num, stop))

\* a variant of _post_results below that keeps the cached output
\* (the variant C35 is checked against)
PostResultsKeepsOutput(j, num) ==
    [j EXCEPT !.outQueue = Append(@, j.worker[num].currentOutput),
              !.output = [file \in FileIds |->
                             @[file] + Cardinality({k \in 1 .. Len(j.worker[num].currentOutput) :
                                                       j.worker[num].currentOutput[k].filePath = file})],
              !.worker[num].unposted = @ - 1]

\* Worker._post_results: the cached output is put on the output queue, and
\* the cache is emptied
PostResultsPut(j, num) ==
    [j EXCEPT !.outQueue = Append(@, j.worker[num].currentOutput),
              !.output = [file \in FileIds |->
                             @[file] + Cardinality({k \in 1 .. Len(j.worker[num].currentOutput) :
                                                       j.worker[num].currentOutput[k].filePath = file})],
              !.worker[num].unposted = @ - 1,
              !.worker[num].currentOutput = <<>>]

\* Worker._run after the work items: _post_results, and the pass ends with
\* _check_for_stop
RunPostResults(num) ==
    /\ job.worker[num].pc = "post"
    /\ JobStep(EndOfPass(CheckForStop(PostResultsPut(job, num), num), num))

\* Worker._post_results when the put raises Full: the JobException ends _run
\* and Worker.run reports the exception to the job
PostResultsFull(num) ==
    /\ job.worker[num].pc = "post"
    /\ JobStep([SendCommand(job, "JOB", "EXCEPTION") EXCEPT
                    !.worker[num].currentOutput = <<>>,
                    !.worker[num].exception = "JobException",
                    !.worker[num].pc = "dead",
                    !.failed = TRUE])

\* OutThread._run, one pass of the loop
OutRun ==
    LET c == ContinueProcessing(job)
    IN  /\ job.out.pc = "run"
        /\ JobStep(IF ~c.out.continueProcessing \/ (c.out.workDone /\ c.outQueue = <<>>)
                   THEN [c EXCEPT !.out.pc = "dead",
                                  !.out.stopped = IF c.out.continueProcessing
                                                  THEN "WORK_DONE" ELSE "EXIT"]
                   ELSE IF c.outQueue # <<>>
                   THEN [c EXCEPT !.outQueue = Tail(@),
                                  !.out.taskPackagesReceived = @ + 1,
                                  !.out.filesOutput = Head(c.outQueue),
                                  !.out.pc = IF Head(c.outQueue) = <<>> THEN "run" ELSE "callback"]
                   ELSE c)

\* the output thread after the callback of a file
NextOutput(j) ==
    [j EXCEPT !.out.filesOutput = Tail(@),
              !.out.pc = IF Len(j.out.filesOutput) = 1 THEN "run" ELSE @]

\* OutThread._run: file_measured_callback for one file of the output, and
\* the ERROR command when the file has errors
FileMeasured ==
    LET entry == Head(job.out.filesOutput)
        j == [job EXCEPT !.called[entry.filePath] = @ + 1]
    IN  /\ job.out.pc = "callback"
        /\ JobStep(NextOutput(IF entry.errors THEN SendCommand(j, "JOB", "ERROR") ELSE j))

\* OutThread.run when file_measured_callback raises (the writer raises
\* OutputException when an output file cannot be opened): the exception is
\* reported to the job and the thread ends
FileMeasuredRaises ==
    /\ job.out.pc = "callback"
    /\ JobStep([SendCommand(job, "JOB", "EXCEPTION") EXCEPT
                    !.out.pc = "dead", !.out.stopped = "Exception", !.failed = TRUE])

InitJob ==
    /\ AtRest
    /\ call = NoCall
    /\ job \in { NewJob(breakOnError) : breakOnError \in BOOLEAN }

NextJob ==
    \/ PutFilesInQueue \/ FillWorkQueue \/ WaitProcessPackages \/ WaitOutputFinish
    \/ WaitOutputInFlight \/ WaitThenExit \/ JoinWorker \/ CloseQueues
    \/ \E num \in WorkerIds :
          \/ WorkerGet(num) \/ MeasureFile(num) \/ RunPostResults(num)
          \/ PostResultsFull(num)
    \/ OutRun \/ FileMeasured \/ FileMeasuredRaises

SpecJob == InitJob /\ [][NextJob]_vars

(***************************************************************************)
(* C34: the work packages the job counts stay in sync                      *)
(***************************************************************************)
\* the assertion of Job._task_queue_size has failed
OutOfSync == job.main = "asserted"

\* C34: in every reachable state of a job the packages sent, less the packages
\* the output thread received, less the exceptions collected, is not negative,
\* so that the assertion "In/Out Queues out of sync" of _task_queue_size never
\* fails, whatever the main thread, the workers and the output thread do and
\* also when a worker or the output thread reports an exception
C34_QueuesInSync == RemainingPackages(job) >= 0 /\ ~OutOfSync

\* the count is not negative as long as the output thread reported no exception
C34_WorkerExceptions == job.out.stopped # "Exception" => RemainingPackages(job) >= 0


(***************************************************************************)
(* C35: one output list for each work package                              *)
(***************************************************************************)
\* the worker is between two work packages, or has ended
BetweenPackages(num) == job.worker[num].pc \in {"unstarted", "get", "dead"}

\* the worker has put one output list for each work package it took
OneListPerPackage(num) == job.worker[num].unposted = 0

\* the JobException of _post_results has ended the worker
EndedByException(num) ==
    job.worker[num].pc = "dead" /\ job.worker[num].exception = "JobException"

\* no file has its results in two output lists
NoFileInTwoLists == \A file \in FileIds : job.output[file] <= 1

CommandsKept == job.commands = Len(job.controlQueue)

\* no check has consumed a command of another target
OnlyByAddressee == ~job.misdelivered

\* a step of the worker is possible wherever it is in _run
WorkerRuns(num) ==
    ENABLED (WorkerGet(num) \/ MeasureFile(num) \/ RunPostResults(num))

\* a step of the output thread is possible wherever it is in _run
OutRuns == ENABLED (OutRun \/ FileMeasured)

\* a step of the main thread is possible wherever it is in Job.run
JobRuns ==
    ENABLED (PutFilesInQueue \/ FillWorkQueue \/ WaitProcessPackages \/ WaitOutputFinish
             \/ WaitOutputInFlight \/ WaitThenExit \/ JoinWorker \/ CloseQueues)

JobThread ==
    \/ PutFilesInQueue \/ FillWorkQueue \/ WaitProcessPackages \/ WaitOutputFinish
    \/ WaitOutputInFlight \/ WaitThenExit \/ JoinWorker \/ CloseQueues

WorkerProcess(num) ==
    \/ WorkerGet(num) \/ MeasureFile(num) \/ RunPostResults(num)

OutThread == OutRun \/ FileMeasured

\* the job under a scheduler that lets every thread and process run: each of
\* them takes a step again and again as long as it can take one (its loops
\* sleep and poll, none of them waits on another), and a job that polls
\* controlQueue.empty() right after its puts again and again finds it True at
\* some time; the exceptions are left to chance
SpecJobLive ==
    /\ InitJob
    /\ [][NextJob]_vars
    /\ WF_vars(JobThread)
    /\ SF_vars(WaitOutputInFlight)
    /\ \A num \in WorkerIds : WF_vars(WorkerProcess(num))
    /\ WF_vars(OutThread)

\* Job.run has returned, or has been left by an exception
Returned == job.main \in {"done", "asserted"}

\* C37: Job.run always terminates (stated here for the runs in which no
\* worker is ended by an exception)
C37_JobTerminates == <>(Returned \/ \E num \in WorkerIds : EndedByException(num))

\* Job.run terminates when neither the output thread nor a worker is ended
\* by an exception
C37_TerminatesWithoutException ==
    <>(\/ Returned
       \/ job.out.stopped = "Exception"
       \/ \E num \in WorkerIds : EndedByException(num))

(***************************************************************************)
(* C38: each file is sent, measured and handed to the application once     *)
(***************************************************************************)
\* no error and no exception has occurred, and break-on-error is off
NoFailure == ~job.failed /\ ~job.breakOnError

\* the files added to a work package so far
FilesAdded == 1 .. job.files

\* the files of the work package that is being filled
InWorkPackage == { job.workPackage[k] : k \in 1 .. Len(job.workPackage) }

\* a file is in no task package while it waits in the work package, and in
\* exactly one once the package is sent; _fill_work_queue leaves none behind
SentInOnePackage ==
    /\ \A file \in FilesAdded :
          job.packaged[file] = IF file \in InWorkPackage THEN 0 ELSE 1
    /\ job.main # "fill" => InWorkPackage = {}

\* no file is measured twice or handed to the callback twice, and a file is
\* handed to the callback only after it was measured and put on the output queue
AtMostOnce ==
    \A file \in FileIds :
        /\ job.measured[file] <= job.packaged[file]
        /\ job.output[file] <= job.measured[file]
        /\ job.called[file] <= job.output[file]

\* when the output thread has stopped, every file added was sent, measured
\* and handed to the callback once
AllCalledAtStop ==
    job.out.pc = "dead"
        => \A file \in FilesAdded :
              job.packaged[file] = 1 /\ job.measured[file] = 1 /\ job.called[file] = 1

\* the output thread has stopped on WORK_DONE with nothing left on the output
\* queue, or on EXIT
StoppedWhenDone ==
    job.out.pc = "dead"
        => \/ job.out.stopped = "WORK_DONE" /\ job.out.workDone /\ job.outQueue = <<>>
           \/ job.out.stopped = "EXIT" /\ ~job.out.continueProcessing

\* C38: when no error or exception occurs and break-on-error is off, every
\* file added to a work package is sent in exactly one task package, measured
\* by exactly one worker and handed to the application's file_measured_callback
\* exactly once before the output thread stops; the output thread stops only
\* after WORK_DONE with an empty output queue, or on EXIT
C38_EachFileOnce ==
    NoFailure => SentInOnePackage /\ AtMostOnce /\ AllCalledAtStop /\ StoppedWhenDone

\* a job of three files, sent as two task packages, has returned without an
\* error: the output thread stopped on WORK_DONE after the callback of each file
C38_Witness ==
    /\ NoFailure
    /\ job.main = "done"
    /\ job.files = 3
    /\ job.taskPackagesSent = 2
    /\ job.out.pc = "dead" /\ job.out.stopped = "WORK_DONE"
    /\ \A file \in FilesAdded : job.called[file] = 1
    /\ \A num \in WorkerIds : job.worker[num].pc = "dead"

(***************************************************************************)
(* C39: the file handles of a work item                                    *)
(***************************************************************************)
\* config entries of one file, and work items measured by the worker
MaxConfigItems == 2
MaxWorkItems == 2

\* the options of a module that decide whether it opens a file: METADATA_ONLY,
\* a name of IGNORE_PATHS found in the path, FORCE_ALL_TYPES, and an
\* IGNORE_SIZE smaller than the file
OpenModules ==
    [metaDataOnly : BOOLEAN, ignorePath : BOOLEAN, forceAll : BOOLEAN, overSize : BOOLEAN]

\* how the file starts: with nothing, with text, or with the magic number of
\* a non-code file
FileStarts == {"empty", "text", "noncode"}

\* a work item: whether the file has a non-code extension, how it starts, the
\* file of the delta path (no delta path, no such file, the same file, a
\* modified file) and the modules of its config entries
WorkItems ==
    [nonCodeExt : BOOLEAN, start : FileStarts,
     delta : {"None", "missing", "same", "modified"},
     configItems : UNION { [1 .. n -> OpenModules] : n \in 1 .. MaxConfigItems }]

\* what an open returns: the value (None, a file handle, a list of lines, an
\* empty list), whether the handle is the existing one, how many handles it
\* opened and left open without returning them, and whether it raised
Opened(rv, reused, unclosed, raised) ==
    [rv |-> rv, reused |-> reused, unclosed |-> unclosed, raised |-> raised]

\* fileopen._open_file: opens the file; an empty file gives None without a
\* close; with forceAll the handle is kept; otherwise a non-code start closes
\* it, and filetype.is_text_file is called with the start string, on which
\* utils.get_file_start raises AttributeError
FileopenOpenFile(forceAll, start) ==
    IF start = "empty" THEN Opened("None", FALSE, 1, FALSE)
    ELSE IF forceAll THEN Opened("file", FALSE, 0, FALSE)
    ELSE IF start = "noncode" THEN Opened("None", FALSE, 0, FALSE)
    ELSE Opened("None", FALSE, 1, TRUE)

\* fileopen.open_file_for_survey
open_file_for_survey(nonCodeExt, start, existingFile, forceAll, overSize) ==
    IF ~forceAll /\ nonCodeExt THEN Opened("None", FALSE, 0, FALSE)
    ELSE IF overSize THEN Opened("None", FALSE, 0, FALSE)
    ELSE IF existingFile = "file" THEN Opened("file", TRUE, 0, FALSE)
    ELSE FileopenOpenFile(forceAll, start)

\* _BaseModule._get_delta_lines: a normal open when the delta file does not
\* exist; the lines of a modified file are read and the file closed (len of
\* None raises when the file was not opened); nothing for an identical file
get_delta_lines(module, item) ==
    LET file == open_file_for_survey(item.nonCodeExt, item.start, "None",
                                     module.forceAll, module.overSize)
    IN  CASE item.delta = "missing" -> file
          [] item.delta = "modified" ->
                IF file.rv = "file"
                THEN Opened(IF item.start = "empty" THEN "nolines" ELSE "lines", FALSE, 0, FALSE)
                ELSE Opened("None", FALSE, file.unclosed, TRUE)
          [] OTHER -> Opened("None", FALSE, 0, FALSE)

\* _BaseModule.open_file
open_file(module, item, existingFileHandle) ==
    IF module.metaDataOnly THEN Opened("None", FALSE, 0, FALSE)
    ELSE IF module.ignorePath THEN Opened("None", FALSE, 0, FALSE)
    ELSE IF item.delta # "None" THEN get_delta_lines(module, item)
    ELSE open_file_for_survey(item.nonCodeExt, item.start, existingFileHandle,
                              module.forceAll, module.overSize)

\* Worker._open_file: _currentFileIterator becomes what the module returns; a
\* handle it held before and that is not returned again is no longer
\* referenced by the worker
WorkerOpenFile(c, module) ==
    LET got == open_file(module, c.workItem, c.currentFileIterator)
        dropped == IF ~got.raised /\ c.currentFileIterator = "file" /\ ~got.reused
                   THEN 1 ELSE 0
    IN  [c EXCEPT !.currentFileIterator = IF got.raised THEN @ ELSE got.rv,
                  !.opened = @ \/ got.rv = "file",
                  !.unclosed = @ + got.unclosed + dropped,
                  !.raised = got.raised]

\* Worker._close_current_file: closes what the worker holds, if it is true
CloseCurrentFile(c) ==
    [c EXCEPT !.currentFileIterator = IF @ \in {"file", "lines"} THEN "None" ELSE @]

\* the worker before its first work item
NewFileWorker ==
    [function |-> "_measure_file", pc |-> "get", workItem |-> "None", entry |-> 0,
     currentFileIterator |-> "None", opened |-> FALSE, declined |-> FALSE,
     unclosed |-> 0, raised |-> FALSE, workItems |-> 0]

CallStep(c) == call' = c /\ UNCHANGED <<surveyVars, job>>

\* Worker._measure_file is called with the next work item
MeasureFileBegins ==
    /\ call.function = "_measure_file"
    /\ call.pc = "get"
    /\ call.workItems < MaxWorkItems
    /\ \E item \in WorkItems :
          CallStep([call EXCEPT !.pc = "entry", !.workItem = item, !.entry = 1,
                                !.opened = FALSE, !.declined = FALSE, !.raised = FALSE])

\* one pass of the loop over the config items: _check_for_stop, _open_file
\* and process_file, which may raise
MeasureConfigItem ==
    /\ call.function = "_measure_file"
    /\ call.pc = "entry"
    /\ \E stop \in BOOLEAN, raises \in BOOLEAN :
          IF stop THEN CallStep([call EXCEPT !.pc = "finally"])
          ELSE LET c == WorkerOpenFile(call, call.workItem.configItems[call.entry])
                   lastItem == call.entry = Len(call.workItem.configItems)
                   d == [c EXCEPT !.declined = @ \/ (call.opened /\ call.currentFileIterator = "file"
                                                        /\ c.currentFileIterator = "None")]
               IN  CallStep([d EXCEPT !.pc = IF c.raised \/ raises \/ lastItem THEN "finally" ELSE "entry",
                                      !.raised = c.raised \/ raises,
                                      !.entry = @ + 1])

\* the finally block of _measure_file
MeasureFileEnds ==
    /\ call.function = "_measure_file"
    /\ call.pc = "finally"
    /\ CallStep([CloseCurrentFile(call) EXCEPT !.pc = "get", !.workItem = "None", !.entry = 0,
                                               !.workItems = @ + 1])

\* the interpreter finalizes a file object that nothing refers to
Finalize ==
    /\ call.function = "_measure_file"
    /\ call.unclosed > 0
    /\ CallStep([call EXCEPT !.unclosed = @ - 1])

InitOpen == AtRest /\ job = NoJob /\ call = NewFileWorker

NextOpen == MeasureFileBegins \/ MeasureConfigItem \/ MeasureFileEnds \/ Finalize

SpecOpen == InitOpen /\ [][NextOpen]_vars

\* a work item is over and the next has not begun
BetweenWorkItems == call.pc = "get" /\ call.workItems > 0

C39_ClosedAfterDecline == BetweenWorkItems /\ call.declined => call.unclosed = 0

\* what _close_current_file does close: the worker holds no file when a work
\* item is over
C39_HeldFileClosed == BetweenWorkItems => call.currentFileIterator \notin {"file", "lines"}

(***************************************************************************)
(* C40: file filters                                                       *)
(***************************************************************************)
\* the special tokens of filter patterns
BLANK_FILE_EXT == "NO_EXT"
EXCLUDE_FILE_EXT == "EX:"
EX_DELIM_CHAR == ":"

\* lengths of the file names and of the filters (in characters and tokens)
MaxNameLen == 3
MaxFilterLen == 3

\* a file name is a sequence of characters; a filter is a sequence of
\* characters in which the special tokens are single elements
NameChars == {"a", "c", "."}
FilterTokens == {EXCLUDE_FILE_EXT, EX_DELIM_CHAR, BLANK_FILE_EXT, "*", ".", "c"}
FileNames == UNION { [1 .. n -> NameChars] : n \in 0 .. MaxNameLen }
FileFilters == UNION { [1 .. n -> FilterTokens] : n \in 0 .. MaxFilterLen }

\* os.path.splitext for a name without separators: the extension starts at
\* the last dot, unless only dots come before it
Splitext(fileName) ==
    LET dots == { i \in 1 .. Len(fileName) : fileName[i] = "." }
        dotIndex == CHOOSE i \in dots : \A k \in dots : k <= i
    IN  IF dots # {} /\ \E i \in 1 .. dotIndex - 1 : fileName[i] # "."
        THEN [root |-> SubSeq(fileName, 1, dotIndex - 1),
              ext |-> SubSeq(fileName, dotIndex, Len(fileName))]
        ELSE [root |-> fileName, ext |-> <<>>]

\* the regex of fnmatch.translate matched against the whole name: '*' stands
\* for any characters, every other element for itself
RECURSIVE Fnmatch(_, _)
Fnmatch(fileName, pattern) ==
    IF pattern = <<>> THEN fileName = <<>>
    ELSE IF Head(pattern) = "*"
         THEN \E k \in 0 .. Len(fileName) :
                  Fnmatch(SubSeq(fileName, k + 1, Len(fileName)), Tail(pattern))
         ELSE /\ fileName # <<>>
              /\ Head(fileName) = Head(pattern)
              /\ Fnmatch(Tail(fileName), Tail(pattern))

\* a _file_match whose blank detection returns its result: with it in place
\* of file_match below, C40_FileFilters holds
FileMatchReturnsBlank(fileName, fileFilter) ==
    IF fileFilter = <<BLANK_FILE_EXT>>
    THEN LET parts == Splitext(fileName)
         IN  IF parts.ext = <<>> /\ ~(parts.root # <<>> /\ Head(parts.root) = ".")
             THEN "True" ELSE "False"
    ELSE IF Fnmatch(fileName, fileFilter) THEN "True" ELSE "False"

\* fileext._file_match: the return statement belongs to the else branch, so
\* the blank detection computes filterMatch and the function returns None
file_match(fileName, fileFilter) ==
    IF fileFilter = <<BLANK_FILE_EXT>>
    THEN "None"
    ELSE IF Fnmatch(fileName, fileFilter) THEN "True" ELSE "False"

\* str.replace(EXCLUDE_FILE_EXT, '')
RemoveExclude(fileFilter) == SelectSeq(fileFilter, LAMBDA t : t # EXCLUDE_FILE_EXT)

\* str.split(EX_DELIM_CHAR)
RECURSIVE SplitFilter(_)
SplitFilter(fileFilter) ==
    IF \E i \in 1 .. Len(fileFilter) : fileFilter[i] = EX_DELIM_CHAR
    THEN LET i == CHOOSE i \in 1 .. Len(fileFilter) :
                      /\ fileFilter[i] = EX_DELIM_CHAR
                      /\ \A k \in 1 .. i - 1 : fileFilter[k] # EX_DELIM_CHAR
         IN  <<SubSeq(fileFilter, 1, i - 1)>>
                 \o SplitFilter(SubSeq(fileFilter, i + 1, Len(fileFilter)))
    ELSE <<fileFilter>>

\* what Python takes for true
Truthy(value) == value = "True"

\* fileext.file_ext_match
file_ext_match(fileName, fileFilter) ==
    IF fileFilter = <<>> THEN "True"
    ELSE IF Head(fileFilter) = EXCLUDE_FILE_EXT
         THEN LET negativeFilters == SplitFilter(RemoveExclude(fileFilter))
              IN  IF \E k \in 1 .. Len(negativeFilters) :
                         Truthy(file_match(fileName, negativeFilters[k]))
                  THEN "False" ELSE "True"
         ELSE file_match(fileName, fileFilter)

\* file_ext_match returns
FileExtMatch ==
    /\ call.function = "file_ext_match"
    /\ ~call.returned
    /\ call' = [call EXCEPT !.returned = TRUE,
                            !.result = file_ext_match(call.fileName, call.fileFilter)]
    /\ UNCHANGED <<surveyVars, job>>

InitFilter ==
    /\ AtRest
    /\ job = NoJob
    /\ call \in { [function |-> "file_ext_match", fileName |-> n, fileFilter |-> f,
                   returned |-> FALSE, result |-> "None"] : n \in FileNames, f \in FileFilters }

NextFilter == FileExtMatch

SpecFilter == InitFilter /\ [][NextFilter]_vars

\* the name has no extension and does not start with '.'
NoExtension(fileName) ==
    /\ Splitext(fileName).ext = <<>>
    /\ ~(fileName # <<>> /\ Head(fileName) = ".")

\* the name matches a sub-filter: NO_EXT by having no extension, any other by
\* the pattern
MatchesSubFilter(fileName, subFilter) ==
    IF subFilter = <<BLANK_FILE_EXT>> THEN NoExtension(fileName)
    ELSE Fnmatch(fileName, subFilter)

\* the ':'-separated sub-filters of an exclusion filter
SubFilters(fileFilter) ==
    LET parts == SplitFilter(RemoveExclude(fileFilter))
    IN  { parts[k] : k \in 1 .. Len(parts) }

IsExclusion(fileFilter) == fileFilter # <<>> /\ Head(fileFilter) = EXCLUDE_FILE_EXT

\* file_ext_match(name, 'NO_EXT') is true exactly for the names without extension
NoExtFilter ==
    call.fileFilter = <<BLANK_FILE_EXT>>
        => (Truthy(call.result) <=> NoExtension(call.fileName))

\* an exclusion filter matches exactly the names that match none of its sub-filters
ExclusionFilter ==
    IsExclusion(call.fileFilter)
        => (Truthy(call.result)
               <=> \A subFilter \in SubFilters(call.fileFilter) :
                       ~MatchesSubFilter(call.fileName, subFilter))

\* an empty filter matches every name
EmptyFilter == call.fileFilter = <<>> => Truthy(call.result)

\* C40: file_ext_match(name, 'NO_EXT') is true exactly for file names that
\* have no extension and do not start with '.'; a filter starting with 'EX:'
\* matches exactly the names that match none of its ':'-separated sub-filters
\* (which may include NO_EXT); an empty filter matches every name
C40_FileFilters ==
    call.function = "file_ext_match" /\ call.returned
        => NoExtFilter /\ ExclusionFilter /\ EmptyFilter

\* the parts that hold: exclusion filters without a NO_EXT sub-filter, and
\* the empty filter
C40_WithoutNoExt ==
    call.function = "file_ext_match" /\ call.returned
        => /\ EmptyFilter
           /\ <<BLANK_FILE_EXT>> \notin SubFilters(call.fileFilter) => ExclusionFilter
====
